---------------------------- MODULE Spec2Model ----------------------------
(***************************************************************************)
(* Model of the ShadowOps Digest clustering engine                         *)
(* (backend/clustering.py) and of its FAISS vector store                   *)
(* (backend/vector_store.py).                                              *)
(*                                                                         *)
(* Vectors are integer pairs.  The index holds float32 numbers             *)
(* (astype(np.float32) at the calls of index.add and index.search); the    *)
(* model keeps them as fixed-point numbers in thousandths, rounded to the  *)
(* nearest thousandth where the code rounds to the nearest float32: when   *)
(* a normalised component is stored and when the index forms an inner      *)
(* product.  Scores are therefore in thousandths as well.                  *)
(***************************************************************************)
EXTENDS Integers, Sequences, FiniteSets, TLC

VARIABLES
    use_openai,     \* TicketClusteringEngine.use_openai
    vector_store,   \* TicketClusteringEngine.vector_store: None or the store
    pc,             \* position of the running cluster_tickets call
    tickets,        \* the batch of the running (or last) call
    embeddings,     \* embeddings of the batch (embedding path)
    clusters,       \* label -> ticket indices, in dict insertion order
    result,         \* the map returned by the last cluster_tickets call
    raised,         \* the last call raised to its caller
    failure,        \* history: the step of the call that raised, "" if none
    tiers,          \* history: the paths the call has entered, in order
    used,           \* history: the collaborators the call has invoked
    hits,           \* history: search results handed to the engine
    callNo,         \* history: number of cluster_tickets calls started
    absorbed,       \* history: the collaborators whose exception the call handled itself
    oracle,         \* history: what the naming oracle answered, cluster by cluster
    store,          \* a TicketVectorStore used directly by its callers
    ipc,            \* position of the thread running store_embeddings
    iarg,           \* arguments of the last store_embeddings call
    ipre,           \* history: the store when that call started
    iret,           \* how that call ended: "True", "False" or "raised"
    spc,            \* position of the thread running search_similar_tickets
    sarg,           \* arguments of the last search
    sview,          \* the <<score, position>> list the search got from the index
    sret,           \* the list the search returned
    sobs,           \* history: the sizes of index and metadata the search saw,
                    \* and whether an exception left the search
    nInserts,       \* history: number of store_embeddings calls started
    fn,             \* the function applied last, "" if none
    arg,            \* its argument
    out,            \* what it returned
    digest_cache,   \* main.digest_cache: cache key -> entry
    now,            \* datetime.utcnow(), in minutes
    disk            \* the two files save_index writes under its filepath

engineVars == <<use_openai, vector_store, pc, tickets, embeddings, clusters,
                result, raised, failure, tiers, used, hits, callNo, absorbed,
                oracle>>
storeVars == <<store, ipc, iarg, ipre, iret, spc, sarg, sview, sret, sobs,
               nInserts>>
auxVars == <<fn, arg, out, digest_cache, now, disk>>
vars == <<engineVars, storeVars, auxVars>>

None == "None"

\* The value of TicketClusteringEngine.vector_store when it is None.
NoStore == [dimension |-> 0, index_type |-> "None", index |-> <<>>,
            metadata |-> <<>>, is_trained |-> FALSE]

----------------------------------------------------------------------------
(* Bounds of the model.                                                    *)

MaxTickets == 3
MaxCalls == 1
MaxSessionCalls == 2
MaxBatch == 2
MaxInserts == 2
MaxCountN == 120
MaxTextLen == 4
MaxSelected == 3
MaxNamed == 3
MaxKeyTickets == 2
MaxNow == 62
MaxRefined == 6
MaxHits == 3
MaxOrdered == 4
MaxDigestTickets == 3
MaxDigests == 2

----------------------------------------------------------------------------
(* Arithmetic on vectors.                                                  *)

Abs(x) == IF x < 0 THEN -x ELSE x

Sign(x) == IF x < 0 THEN -1 ELSE IF x = 0 THEN 0 ELSE 1

Min(a, b) == IF a <= b THEN a ELSE b

RECURSIVE SqrtBetween(_, _, _)
SqrtBetween(x, lo, hi) ==
    IF lo >= hi THEN lo
    ELSE LET mid == (lo + hi + 1) \div 2
         IN  IF mid * mid <= x THEN SqrtBetween(x, mid, hi)
             ELSE SqrtBetween(x, lo, mid - 1)

\* floor of the square root of x, for 0 <= x < 2^31
ISqrt(x) == SqrtBetween(x, 0, 46340)

RECURSIVE SumSeq(_)
SumSeq(s) == IF s = <<>> THEN 0 ELSE Head(s) + SumSeq(Tail(s))

Dot(a, b) == SumSeq([i \in 1..Min(Len(a), Len(b)) |-> a[i] * b[i]])

\* One in the fixed-point representation of the index's numbers.
Scale == 1000

\* a / b rounded to the nearest integer, for b > 0
RoundDiv(a, b) == (2 * a + b) \div (2 * b)

\* _normalize_embeddings, one row: v / ||v||, a zero row is left as it is;
\* each component is then held to the nearest thousandth (astype(np.float32)).
\* |v[i]| * Scale / ||v|| is rounded by way of the floor of its double.
NormalizeRow(v) ==
    LET n == Dot(v, v)
    IN  IF n = 0 THEN v
        ELSE [i \in 1..Len(v) |->
                Sign(v[i]) * ((ISqrt((4 * v[i] * v[i] * Scale * Scale) \div n) + 1) \div 2)]

_normalize_embeddings(emb) == [i \in 1..Len(emb) |-> NormalizeRow(emb[i])]

\* The cosine of the angle between a and b, in thousandths (rounded towards
\* zero), as float64 arithmetic gives it.
Cosine(a, b) ==
    LET d  == Dot(a, b)
        na == Dot(a, a)
        nb == Dot(b, b)
    IN  IF na = 0 \/ nb = 0 THEN 0
        ELSE Sign(d) * ISqrt((1000000 * d * d) \div (na * nb))

\* IndexFlatIP: the inner product of two stored (normalised) rows, itself
\* held to the nearest thousandth.
InnerProduct(a, b) == RoundDiv(Dot(a, b), Scale)

----------------------------------------------------------------------------
(* TicketVectorStore (vector_store.py).  A store is a record; its index is *)
(* the sequence of the normalised vectors added so far, position i of the  *)
(* index being FAISS id i-1.                                               *)

\* TicketVectorStore._initialize_index: a fresh, empty index of the
\* configured type; only the flat one is usable without training.
\* (An unsupported index_type raises; the model creates only the two.)
_initialize_index(st) ==
    IF st.index_type = "flat"
    THEN [st EXCEPT !.index = <<>>, !.is_trained = TRUE]
    ELSE [st EXCEPT !.index = <<>>, !.is_trained = FALSE]

\* TicketVectorStore.__init__ / create_vector_store
create_vector_store(dimension, index_type) ==
    _initialize_index([dimension |-> dimension, index_type |-> index_type,
                       index |-> <<>>, metadata |-> <<>>, is_trained |-> FALSE])

\* The number of vectors an IVF index needs before it is trained.
MinTrainSize == 100

\* faiss checks the dimension of what it is given (train, add, search).
DimensionOk(st, rows) == \A i \in 1..Len(rows) : Len(rows[i]) = st.dimension

\* A slip in the placing of the try: the query is reshaped and normalised,
\* and handed to the index, outside it.
SearchEscapesOnBadQuery(st, query) == Len(query) # st.dimension

\* A slip in the guard: only a batch short of metadata is refused.
LengthMismatchOneSided(emb, meta) == Len(emb) > Len(meta)

\* store_embeddings, line 73: the guard of the ValueError.
LengthMismatch(emb, meta) == Len(emb) # Len(meta)

\* store_embeddings, lines 73-87: validation, normalisation and the training
\* decision.  ok = FALSE stands for an exception (caught at line 100).
StorePrepare(st, emb, meta) ==
    IF LengthMismatch(emb, meta) THEN [ok |-> FALSE, st |-> st]
    ELSE IF ~st.is_trained /\ st.index_type = "ivf"
    THEN IF Len(emb) >= MinTrainSize
         THEN IF DimensionOk(st, emb)
              THEN [ok |-> TRUE, st |-> [st EXCEPT !.is_trained = TRUE]]
              ELSE [ok |-> FALSE, st |-> st]
         ELSE [ok |-> TRUE, st |-> _initialize_index(st)]
    ELSE [ok |-> TRUE, st |-> st]

\* store_embeddings, line 91: index.add(normalized_embeddings); it raises on
\* rows of the wrong dimension and on an IVF index that is not trained.
IndexAdd(st, emb) ==
    IF DimensionOk(st, emb) /\ (st.index_type = "flat" \/ st.is_trained)
    THEN [ok |-> TRUE,
          st |-> [st EXCEPT !.index = @ \o _normalize_embeddings(emb)]]
    ELSE [ok |-> FALSE, st |-> st]

\* store_embeddings, line 92: self.metadata.extend(metadata)
MetadataExtend(st, meta) == [st EXCEPT !.metadata = @ \o meta]

\* A slip in the order of lines 91 and 92: the metadata list is extended
\* before index.add, which may still raise.
StoreEmbeddingsMetadataFirst(st, emb, meta) ==
    LET p == StorePrepare(st, emb, meta)
    IN  IF ~p.ok THEN [st |-> p.st, ret |-> FALSE]
        ELSE IF ~p.st.is_trained THEN [st |-> p.st, ret |-> FALSE]
        ELSE LET m == MetadataExtend(p.st, meta)
                 a == IndexAdd(m, emb)
             IN  [st |-> a.st, ret |-> a.ok]

\* store_embeddings as one uninterrupted call: the store it leaves and the
\* value it returns.
StoreEmbeddings(st, emb, meta) ==
    LET p == StorePrepare(st, emb, meta)
    IN  IF ~p.ok THEN [st |-> p.st, ret |-> FALSE]
        ELSE IF ~p.st.is_trained THEN [st |-> p.st, ret |-> FALSE]
        ELSE LET a == IndexAdd(p.st, emb)
             IN  IF ~a.ok THEN [st |-> a.st, ret |-> FALSE]
                 ELSE [st |-> MetadataExtend(a.st, meta), ret |-> TRUE]

\* index.search(q, k), exact: the k best positions by inner product with the
\* normalised query, best first, the earlier position first among equals.
\* Each entry is <<score, position>>, positions counted from 1.
BestPosition(scores, taken) ==
    LET cand == (1..Len(scores)) \ taken
        vals == {scores[i] : i \in cand}
        top  == CHOOSE v \in vals : \A w \in vals : v >= w
        at   == {i \in cand : scores[i] = top}
    IN  CHOOSE i \in at : \A j \in at : i <= j

RECURSIVE RankedFrom(_, _, _, _)
RankedFrom(scores, k, taken, acc) ==
    IF Len(acc) >= k \/ Len(acc) >= Len(scores) THEN acc
    ELSE LET b == BestPosition(scores, taken)
         IN  RankedFrom(scores, k, taken \cup {b}, Append(acc, <<scores[b], b>>))

RankedBy(scores, k) == RankedFrom(scores, k, {}, <<>>)

IndexSearch(index, query, k) ==
    LET q == NormalizeRow(query)
    IN  RankedBy([i \in 1..Len(index) |-> InnerProduct(index[i], q)], k)

\* An IVF index probes one cell only: it may miss every vector that does not
\* lie with the best match.
ProbedOnly(index, view) ==
    IF view = <<>> THEN view
    ELSE SelectSeq(view, LAMBDA e : index[e[2]] = index[view[1][2]])

\* search_similar_tickets, lines 129-134: keep the hits at or above the
\* threshold and pair them with their metadata.  A position without metadata
\* is an IndexError, caught at line 139: the search returns [].
FilterResults(view, metadata, threshold) ==
    LET kept == SelectSeq(view, LAMBDA e : e[1] >= threshold)
    IN  IF \E i \in 1..Len(kept) : kept[i][2] > Len(metadata) THEN <<>>
        ELSE [i \in 1..Len(kept) |->
                [ticket_index |-> metadata[kept[i][2]].ticket_index,
                 description |-> metadata[kept[i][2]].description,
                 call |-> metadata[kept[i][2]].call,
                 similarity_score |-> kept[i][1]]]

\* What index.search may hand back: the exact list on a flat index, the
\* exact or the probed list on an IVF index.
IndexSearchViews(st, query, k) ==
    LET exact == IndexSearch(st.index, query, k)
    IN  IF st.index_type = "ivf" THEN {exact, ProbedOnly(st.index, exact)}
        ELSE {exact}

\* search_similar_tickets as one uninterrupted call: the lists it may return.
\* An empty store gives [] (line 118), and so does a query of the wrong
\* dimension (index.search raises, line 139).
SearchResults(st, query, k, threshold) ==
    IF Len(st.index) = 0 \/ Len(query) # st.dimension THEN {<<>>}
    ELSE {FilterResults(view, st.metadata, threshold) :
             view \in IndexSearchViews(st, query, k)}

\* Lines 117 and 139-141: the whole body of search_similar_tickets is inside
\* the try block and the handler catches every Exception, so none leaves it.
SearchEscapes(st, query) == FALSE

\* _calculate_cluster_cohesion, lines 302-307: the entries of the upper
\* triangle of the similarity matrix that pass the test upper_triangle > 0.
\* np.triu puts 0 below and on the diagonal, so the test drops those entries,
\* and with them every pair whose similarity is not positive.
PositivePairs(cluster_embeddings) ==
    {p \in (1..Len(cluster_embeddings)) \X (1..Len(cluster_embeddings)) :
        p[1] < p[2] /\ Cosine(cluster_embeddings[p[1]], cluster_embeddings[p[2]]) > 0}

\* The sum of the cosines of a set of pairs.
RECURSIVE SumCosines(_, _)
SumCosines(pairs, vectors) ==
    IF pairs = {} THEN 0
    ELSE LET p == CHOOSE p \in pairs : TRUE
         IN  Cosine(vectors[p[1]], vectors[p[2]]) + SumCosines(pairs \ {p}, vectors)

\* _calculate_cluster_cohesion, in thousandths
_calculate_cluster_cohesion(cluster_embeddings) ==
    IF Len(cluster_embeddings) <= 1 THEN 1000
    ELSE LET similarities == PositivePairs(cluster_embeddings)
         IN  IF Cardinality(similarities) > 0
             THEN SumCosines(similarities, cluster_embeddings) \div Cardinality(similarities)
             ELSE 0

\* The same on a flat store, where the result is determined.
SearchSimilarTickets(st, query, k, threshold) ==
    CHOOSE r \in SearchResults(st, query, k, threshold) : TRUE


----------------------------------------------------------------------------
(* Ticket texts are sequences of characters.                               *)

UpperToLower ==
    "A" :> "a" @@ "B" :> "b" @@ "C" :> "c" @@ "D" :> "d" @@ "E" :> "e" @@
    "F" :> "f" @@ "G" :> "g" @@ "H" :> "h" @@ "I" :> "i" @@ "J" :> "j" @@
    "K" :> "k" @@ "L" :> "l" @@ "M" :> "m" @@ "N" :> "n" @@ "O" :> "o" @@
    "P" :> "p" @@ "Q" :> "q" @@ "R" :> "r" @@ "S" :> "s" @@ "T" :> "t" @@
    "U" :> "u" @@ "V" :> "v" @@ "W" :> "w" @@ "X" :> "x" @@ "Y" :> "y" @@
    "Z" :> "z"

\* str.lower(), one character
LowerChar(c) == IF c \in DOMAIN UpperToLower THEN UpperToLower[c] ELSE c

\* str.lower()
Lower(text) == [i \in 1..Len(text) |-> LowerChar(text[i])]

\* keyword in text: the substring test
Contains(text, kw) ==
    \E i \in 1..(Len(text) - Len(kw) + 1) : SubSeq(text, i, i + Len(kw) - 1) = kw

\* " ".join(parts)
RECURSIVE JoinWithSpace(_)
JoinWithSpace(parts) ==
    IF parts = <<>> THEN <<>>
    ELSE IF Len(parts) = 1 THEN parts[1]
    ELSE parts[1] \o <<" ">> \o JoinWithSpace(Tail(parts))

\* Character classes of the re module on str patterns, for the characters
\* the model draws texts from: \s is whitespace, \w is a letter, a digit or
\* the underscore.
Letters == (DOMAIN UpperToLower) \cup {UpperToLower[c] : c \in DOMAIN UpperToLower}
Digits == {"0", "1", "2", "3", "4", "5", "6", "7", "8", "9"}
IsSpace(c) == c \in {" ", "\t", "\n", "\r"}
IsAlnum(c) == c \in Letters \cup Digits
IsWord(c) == IsAlnum(c) \/ c = "_"

\* str.strip(): leading and trailing whitespace removed
Strip(text) ==
    LET solid == {i \in 1..Len(text) : ~IsSpace(text[i])}
        first == CHOOSE i \in solid : \A j \in solid : i <= j
        last  == CHOOSE i \in solid : \A j \in solid : i >= j
    IN  IF solid = {} THEN <<>> ELSE SubSeq(text, first, last)

\* Line 336: re.sub(r'[^\w\s]', ' ', text)
SubNonWord(text) ==
    [i \in 1..Len(text) |->
        IF IsWord(text[i]) \/ IsSpace(text[i]) THEN text[i] ELSE " "]

\* Line 339: re.sub(r'\s+', ' ', text)
RECURSIVE CollapseFrom(_, _, _)
CollapseFrom(text, i, acc) ==
    IF i > Len(text) THEN acc
    ELSE IF ~IsSpace(text[i]) THEN CollapseFrom(text, i + 1, Append(acc, text[i]))
    ELSE IF i > 1 /\ IsSpace(text[i - 1]) THEN CollapseFrom(text, i + 1, acc)
    ELSE CollapseFrom(text, i + 1, Append(acc, " "))

CollapseWhitespace(text) == CollapseFrom(text, 1, <<>>)

\* str.split(): the maximal runs of non-whitespace characters, in order
RECURSIVE SplitFrom(_, _, _, _)
SplitFrom(text, i, word, words) ==
    LET closed == IF word = <<>> THEN words ELSE Append(words, word)
    IN  IF i > Len(text) THEN closed
        ELSE IF IsSpace(text[i]) THEN SplitFrom(text, i + 1, <<>>, closed)
        ELSE SplitFrom(text, i + 1, Append(word, text[i]), words)

Split(text) == SplitFrom(text, 1, <<>>, <<>>)

\* Line 342: the words of at least 2 characters
LongWords(words) == SelectSeq(words, LAMBDA w : Len(w) >= 2)

\* A slip in the order of the steps: the short words are dropped before the
\* special characters are replaced.
preprocess_ticket_filter_first(ticket) ==
    CollapseWhitespace(SubNonWord(
        JoinWithSpace(LongWords(Split(Strip(Lower(ticket)))))))

\* _preprocess_ticket
_preprocess_ticket(ticket) ==
    JoinWithSpace(LongWords(Split(
        CollapseWhitespace(SubNonWord(Strip(Lower(ticket)))))))

\* The characters and the texts the normaliser is applied to: a letter of
\* each case, a digit, two kinds of whitespace, a punctuation mark and the
\* underscore.
Alphabet == {"A", "b", "7", " ", "\t", "!", "_"}
RawTexts == UNION {[1..n -> Alphabet] : n \in 0..MaxTextLen}

\* The texts tickets are drawn from.
VpnText == <<"V", "P", "N", " ", "d", "o", "w", "n">>
PrinterText == <<"P", "r", "i", "n", "t", "e", "r", " ", "j", "a", "m">>
Texts == {VpnText, PrinterText}

\* The batches a caller may pass: 1..MaxTickets tickets.
Batches == UNION {[1..n -> Texts] : n \in 1..MaxTickets}

----------------------------------------------------------------------------
(* TicketClusteringEngine (clustering.py).  Ticket indices are 0-based as  *)
(* in the code; ticket i is tickets[i + 1].  A cluster map under           *)
(* construction (dict label -> list) is a sequence of records              *)
(* [id, members] in dict insertion order; a named cluster map is a         *)
(* function from names to index lists.                                     *)

\* A slip in the last row of the policy: the cap of 10 left out.
determine_cluster_count_uncapped(num_tickets) ==
    IF num_tickets <= 2 THEN 1
    ELSE IF num_tickets <= 5 THEN 2
    ELSE IF num_tickets <= 10 THEN 3
    ELSE IF num_tickets <= 20 THEN Min(4, num_tickets \div 3)
    ELSE IF num_tickets <= 50 THEN Min(6, num_tickets \div 5)
    ELSE num_tickets \div 8

\* The policy without its first row: two clusters for up to 5 tickets.
determine_cluster_count_from_two(num_tickets) ==
    IF num_tickets <= 5 THEN 2
    ELSE IF num_tickets <= 10 THEN 3
    ELSE IF num_tickets <= 20 THEN Min(4, num_tickets \div 3)
    ELSE IF num_tickets <= 50 THEN Min(6, num_tickets \div 5)
    ELSE Min(10, num_tickets \div 8)

\* A slip in the second row of the policy: n < 5 in place of n <= 5.
determine_cluster_count_strict(num_tickets) ==
    IF num_tickets <= 2 THEN 1
    ELSE IF num_tickets < 5 THEN 2
    ELSE IF num_tickets <= 10 THEN 3
    ELSE IF num_tickets <= 20 THEN Min(4, num_tickets \div 3)
    ELSE IF num_tickets <= 50 THEN Min(6, num_tickets \div 5)
    ELSE Min(10, num_tickets \div 8)

\* _determine_cluster_count
_determine_cluster_count(num_tickets) ==
    IF num_tickets <= 2 THEN 1
    ELSE IF num_tickets <= 5 THEN 2
    ELSE IF num_tickets <= 10 THEN 3
    ELSE IF num_tickets <= 20 THEN Min(4, num_tickets \div 3)
    ELSE IF num_tickets <= 50 THEN Min(6, num_tickets \div 5)
    ELSE Min(10, num_tickets \div 8)

\* list(range(n))
Range(n) == [i \in 1..n |-> i - 1]

EmptyMap == [x \in {} |-> <<>>]

\* named_clusters[name] = indices
Put(map, name, indices) == (name :> indices) @@ map

\* cluster_tickets, lines 82-83: the single-ticket shortcut
SingleTicketResult == Put(EmptyMap, "General Issues", <<0>>)

\* A slip in the handler: range(1, n) in place of range(n).
EmergencyFallbackFromOne(n) == Put(EmptyMap, "General Issues", Tail(Range(n)))

\* cluster_tickets, lines 90-93: the handler of any exception that leaves a
\* clustering path: all tickets in one cluster.
EmergencyFallback(n) == Put(EmptyMap, "General Issues", Range(n))

\* Lines 124-128 / 260-264: group ticket indices by k-means label, a label
\* entering the dict when it is first met.
RECURSIVE GroupFrom(_, _, _)
GroupFrom(labels, i, acc) ==
    IF i > Len(labels) THEN acc
    ELSE LET at == {c \in 1..Len(acc) : acc[c].id = labels[i]}
         IN  IF at = {}
             THEN GroupFrom(labels, i + 1,
                            Append(acc, [id |-> labels[i], members |-> <<i - 1>>]))
             ELSE LET c == CHOOSE c \in at : TRUE
                  IN  GroupFrom(labels, i + 1,
                                [acc EXCEPT ![c].members = Append(@, i - 1)])

GroupByLabel(labels) == GroupFrom(labels, 1, <<>>)

\* The embedding provider is a function of the text, as an embedding model is.
EmbeddingOf(text) == IF text = VpnText THEN <<1, 0>> ELSE <<3, 2>>

\* category_keywords, in table order
category_keywords == <<
    [name |-> "Network Issues", keywords |-> <<
        <<"v", "p", "n">>,
        <<"c", "o", "n", "n", "e", "c", "t", "i", "o", "n">>,
        <<"n", "e", "t", "w", "o", "r", "k">>,
        <<"i", "n", "t", "e", "r", "n", "e", "t">>,
        <<"w", "i", "f", "i">>,
        <<"e", "t", "h", "e", "r", "n", "e", "t">>,
        <<"d", "n", "s">>>>],
    [name |-> "Authentication Problems", keywords |-> <<
        <<"p", "a", "s", "s", "w", "o", "r", "d">>,
        <<"l", "o", "g", "i", "n">>,
        <<"a", "c", "c", "e", "s", "s">>,
        <<"a", "c", "c", "o", "u", "n", "t">>,
        <<"a", "u", "t", "h", "e", "n", "t", "i", "c", "a", "t", "i", "o", "n">>,
        <<"c", "r", "e", "d", "e", "n", "t", "i", "a", "l", "s">>>>],
    [name |-> "Email Issues", keywords |-> <<
        <<"o", "u", "t", "l", "o", "o", "k">>,
        <<"e", "m", "a", "i", "l">>,
        <<"m", "a", "i", "l">>,
        <<"e", "x", "c", "h", "a", "n", "g", "e">>,
        <<"s", "m", "t", "p">>,
        <<"i", "n", "b", "o", "x">>>>],
    [name |-> "Hardware Problems", keywords |-> <<
        <<"p", "r", "i", "n", "t", "e", "r">>,
        <<"m", "o", "n", "i", "t", "o", "r">>,
        <<"k", "e", "y", "b", "o", "a", "r", "d">>,
        <<"m", "o", "u", "s", "e">>,
        <<"h", "a", "r", "d", "w", "a", "r", "e">>,
        <<"d", "e", "v", "i", "c", "e">>>>],
    [name |-> "Software Issues", keywords |-> <<
        <<"a", "p", "p", "l", "i", "c", "a", "t", "i", "o", "n">>,
        <<"s", "o", "f", "t", "w", "a", "r", "e">>,
        <<"p", "r", "o", "g", "r", "a", "m">>,
        <<"i", "n", "s", "t", "a", "l", "l">>,
        <<"u", "p", "d", "a", "t", "e">>,
        <<"c", "r", "a", "s", "h">>>>],
    [name |-> "Phone Issues", keywords |-> <<
        <<"p", "h", "o", "n", "e">>,
        <<"v", "o", "i", "p">>,
        <<"c", "a", "l", "l">>,
        <<"d", "i", "a", "l">>,
        <<"t", "e", "l", "e", "p", "h", "o", "n", "e">>,
        <<"e", "x", "t", "e", "n", "s", "i", "o", "n">>>>],
    [name |-> "Security Issues", keywords |-> <<
        <<"v", "i", "r", "u", "s">>,
        <<"m", "a", "l", "w", "a", "r", "e">>,
        <<"s", "e", "c", "u", "r", "i", "t", "y">>,
        <<"f", "i", "r", "e", "w", "a", "l", "l">>,
        <<"a", "n", "t", "i", "v", "i", "r", "u", "s">>,
        <<"t", "h", "r", "e", "a", "t">>>>],
    [name |-> "File Access", keywords |-> <<
        <<"f", "i", "l", "e">>,
        <<"f", "o", "l", "d", "e", "r">>,
        <<"s", "h", "a", "r", "e">>,
        <<"d", "r", "i", "v", "e">>,
        <<"s", "t", "o", "r", "a", "g", "e">>,
        <<"p", "e", "r", "m", "i", "s", "s", "i", "o", "n">>>>]>>

\* Line 306: the number of the category's keywords found in the text
Score(cluster_text, keywords) ==
    Cardinality({i \in 1..Len(keywords) : Contains(cluster_text, keywords[i])})

\* A slip in the comparison of line 306: >= in place of >, so that the last
\* of the categories with the highest score wins.
RECURSIVE BestFromLastWins(_, _, _, _)
BestFromLastWins(cluster_text, c, best_category, best_score) ==
    IF c > Len(category_keywords) THEN best_category
    ELSE LET score == Score(cluster_text, category_keywords[c].keywords)
         IN  IF score >= best_score
             THEN BestFromLastWins(cluster_text, c + 1, category_keywords[c].name, score)
             ELSE BestFromLastWins(cluster_text, c + 1, best_category, best_score)

\* Lines 302-309: the first category with the highest positive score
RECURSIVE BestFrom(_, _, _, _)
BestFrom(cluster_text, c, best_category, best_score) ==
    IF c > Len(category_keywords) THEN best_category
    ELSE LET score == Score(cluster_text, category_keywords[c].keywords)
         IN  IF score > best_score
             THEN BestFrom(cluster_text, c + 1, category_keywords[c].name, score)
             ELSE BestFrom(cluster_text, c + 1, best_category, best_score)

BestCategory(cluster_text) == BestFrom(cluster_text, 1, "General Issues", 0)

\* A slip in the loop: "if" in place of "while", the suffixed name not tested.
UniqueNameTestedOnce(best_category, original_name, counter, named) ==
    IF best_category \in DOMAIN named
    THEN original_name \o " " \o ToString(counter)
    ELSE best_category

\* Lines 312-316: the first of name, "name 1", "name 2", ... not yet used
RECURSIVE UniqueName(_, _, _, _)
UniqueName(best_category, original_name, counter, named) ==
    IF best_category \in DOMAIN named
    THEN UniqueName(original_name \o " " \o ToString(counter), original_name,
                    counter + 1, named)
    ELSE best_category

\* _generate_rule_based_names
RECURSIVE RuleNamesFrom(_, _, _, _)
RuleNamesFrom(tks, cl, c, named) ==
    IF c > Len(cl) THEN named
    ELSE LET ticket_indices == cl[c].members
             cluster_text == JoinWithSpace(
                 [j \in 1..Len(ticket_indices) |-> Lower(tks[ticket_indices[j] + 1])])
             best == BestCategory(cluster_text)
         IN  RuleNamesFrom(tks, cl, c + 1,
                 Put(named, UniqueName(best, best, 1, named), ticket_indices))

_generate_rule_based_names(tks, cl) == RuleNamesFrom(tks, cl, 1, EmptyMap)


\* Thresholds of the refinement and of find_similar_tickets, in thousandths.
RefineSearchThreshold == 800
RefineMoveThreshold == 850
FindSimilarThreshold == 500
RefineMaxNeighbours == 10

RECURSIVE VecSum(_, _)
VecSum(indices, emb) ==
    IF indices = <<>> THEN <<0, 0>>
    ELSE LET r == VecSum(Tail(indices), emb)
             v == emb[Head(indices) + 1]
         IN  <<v[1] + r[1], v[2] + r[2]>>

\* get_cluster_representatives, lines 160-169: the member whose vector has the
\* highest cosine with the centroid, the first such member (np.argmax).  The
\* centroid is the sum scaled by 1/size, which the cosine ignores.  A zero
\* vector or a zero centroid gives nan, and np.argmax returns the first nan.
RepresentativeTicket(cluster_indices, emb) ==
    LET s == VecSum(cluster_indices, emb)
        n == Len(cluster_indices)
        x(p) == emb[cluster_indices[p] + 1]
        IsNan(p) == Dot(x(p), x(p)) = 0 \/ Dot(s, s) = 0
        \* cos(x(p), s) >= cos(x(q), s), compared without the square roots
        Key(p, q) == Sign(Dot(x(p), s)) * Dot(x(p), s) * Dot(x(p), s) * Dot(x(q), x(q))
        AtLeast(p, q) == Key(p, q) >= Key(q, p)
        nans == {p \in 1..n : IsNan(p)}
        maxima == {p \in 1..n : \A q \in 1..n : AtLeast(p, q)}
        First(S) == CHOOSE p \in S : \A q \in S : p <= q
    IN  cluster_indices[IF nans # {} THEN First(nans) ELSE First(maxima)]

\* list.remove(x): drops the first occurrence
RECURSIVE RemoveFirst(_, _)
RemoveFirst(list, x) ==
    IF list = <<>> THEN <<>>
    ELSE IF Head(list) = x THEN Tail(list)
    ELSE <<Head(list)>> \o RemoveFirst(Tail(list), x)

InList(x, list) == \E i \in 1..Len(list) : list[i] = x

\* Lines 388-392: the first cluster, in dict order, that holds the ticket;
\* 0 stands for None.
CurrentCluster(cl, ticket_idx) ==
    LET holding == {c \in 1..Len(cl) : InList(ticket_idx, cl[c].members)}
    IN  IF holding = {} THEN 0 ELSE CHOOSE c \in holding : \A d \in holding : c <= d

\* The inner loop with the size test of line 395 off by one
\* The inner loop with the size test of line 395 off by one is
\* MoveSimilarFromThree; MoveNothing is the loop with lines 396-397 left out.
MoveNothing(cl, c, similar_tickets, i) == cl

RECURSIVE MoveSimilarFromThree(_, _, _, _)
MoveSimilarFromThree(cl, c, similar_tickets, i) ==
    IF i > Len(similar_tickets) THEN cl
    ELSE LET ticket_idx == similar_tickets[i].ticket_index
             similarity_score == similar_tickets[i].similarity_score
             current_cluster == CurrentCluster(cl, ticket_idx)
         IN  IF /\ similarity_score > RefineMoveThreshold
                /\ ~InList(ticket_idx, cl[c].members)
                /\ current_cluster # 0
                /\ Len(cl[current_cluster].members) <= 3
             THEN MoveSimilarFromThree(
                      [cl EXCEPT ![current_cluster].members = RemoveFirst(@, ticket_idx),
                                 ![c].members = Append(@, ticket_idx)],
                      c, similar_tickets, i + 1)
             ELSE MoveSimilarFromThree(cl, c, similar_tickets, i + 1)

\* Lines 381-398: the loop over the search results of cluster c.  The lists of
\* clusters and of enhanced_clusters are the same objects (dict.copy() is
\* shallow), so one map cl stands for both.
RECURSIVE MoveSimilar(_, _, _, _)
MoveSimilar(cl, c, similar_tickets, i) ==
    IF i > Len(similar_tickets) THEN cl
    ELSE LET ticket_idx == similar_tickets[i].ticket_index
             similarity_score == similar_tickets[i].similarity_score
             current_cluster == CurrentCluster(cl, ticket_idx)
         IN  IF /\ similarity_score > RefineMoveThreshold
                /\ ~InList(ticket_idx, cl[c].members)
                /\ current_cluster # 0
                /\ Len(cl[current_cluster].members) <= 2
             THEN MoveSimilar(
                      [cl EXCEPT ![current_cluster].members = RemoveFirst(@, ticket_idx),
                                 ![c].members = Append(@, ticket_idx)],
                      c, similar_tickets, i + 1)
             ELSE MoveSimilar(cl, c, similar_tickets, i + 1)

\* Lines 364-378: what the search for cluster c returns (<<>> when the cluster
\* is skipped).
SimilarTo(st, cl, c, emb) ==
    IF Len(cl[c].members) < 2 THEN <<>>
    ELSE SearchSimilarTickets(st, emb[RepresentativeTicket(cl[c].members, emb) + 1],
                              Min(RefineMaxNeighbours, Len(emb)),
                              RefineSearchThreshold)

\* Lines 363-398: the loop over the clusters; acc.cl is the map as mutated so
\* far and acc.hits every search result received so far.
RECURSIVE EnhanceFrom(_, _, _, _)
EnhanceFrom(st, acc, c, emb) ==
    IF c > Len(acc.cl) THEN acc
    ELSE LET similar_tickets == SimilarTo(st, acc.cl, c, emb)
         IN  EnhanceFrom(st,
                         [cl |-> MoveSimilar(acc.cl, c, similar_tickets, 1),
                          hits |-> acc.hits \o similar_tickets],
                         c + 1, emb)

\* _enhance_clusters_with_similarity: the loop, then line 401 drops the empty
\* clusters.  (Nothing in the loop can raise on a store the engine filled.)
_enhance_clusters_with_similarity(st, cl, emb) ==
    LET done == EnhanceFrom(st, [cl |-> cl, hits |-> <<>>], 1, emb)
    IN  [cl |-> SelectSeq(done.cl, LAMBDA e : e.members # <<>>),
         hits |-> done.hits]

\* What the naming oracle may answer for one cluster: a name, or an exception.
OracleRaises == "<exception>"
OracleNames == {"Network Issues", "Issue Category 2"}
OracleAnswers == OracleNames \cup {OracleRaises}

\* Line 193: the placeholder name of a cluster
PlaceholderName(cluster_id) == "Issue Category " \o ToString(cluster_id + 1)

\* _generate_cluster_names, answers[c] being the oracle's answer for the c-th
\* cluster of the map.
RECURSIVE NamesFrom(_, _, _, _)
NamesFrom(cl, answers, c, named) ==
    IF c > Len(cl) THEN named
    ELSE NamesFrom(cl, answers, c + 1,
             Put(named,
                 IF answers[c] = OracleRaises THEN PlaceholderName(cl[c].id)
                 ELSE answers[c],
                 cl[c].members))

_generate_cluster_names(cl, answers) == NamesFrom(cl, answers, 1, EmptyMap)

\* Line 112: the metadata stored with the embeddings of a batch.  The field
\* call is history: the cluster_tickets call that made the entry.
BatchMetadata(tks, call) ==
    [i \in 1..Len(tks) |->
        [ticket_index |-> i - 1, description |-> tks[i], call |-> call]]


----------------------------------------------------------------------------
(* The engine: one TicketClusteringEngine and the calls made on it, one at *)
(* a time.  The engine never calls save_index or load_index.               *)

\* The two-thread store of the second specification, left untouched here.
StoreParked ==
    /\ store = NoStore /\ ipc = "idle" /\ iarg = [emb |-> <<>>, meta |-> <<>>]
    /\ ipre = NoStore /\ iret = None /\ spc = "idle"
    /\ sarg = [query |-> <<>>, k |-> 0, threshold |-> 0] /\ sview = <<>>
    /\ sret = <<>> /\ sobs = [ntotal |-> 0, nmeta |-> 0, error |-> FALSE] /\ nInserts = 0

\* TicketClusteringEngine.__init__: with an API key the client is created and
\* use_openai is set; the store exists only if it was asked for, use_openai is
\* set and create_vector_store did not fail.
EngineInit ==
    /\ use_openai \in BOOLEAN
    /\ vector_store \in
         IF use_openai THEN {NoStore, create_vector_store(2, "flat")} ELSE {NoStore}
    /\ pc = "idle"
    /\ tickets = <<>>
    /\ embeddings = <<>>
    /\ clusters = <<>>
    /\ result = EmptyMap
    /\ raised = FALSE
    /\ failure = ""
    /\ tiers = <<>>
    /\ used = {}
    /\ hits = <<>>
    /\ callNo = 0
    /\ absorbed = {}
    /\ oracle = <<>>

\* No function has been applied and the request cache of main.py is empty.
AuxParked ==
    /\ fn = "" /\ arg = <<>> /\ out = <<>>
    /\ digest_cache = <<>> /\ now = 0
    /\ disk = [faiss |-> <<>>, pkl |-> <<>>]

Init == EngineInit /\ StoreParked /\ AuxParked

\* A slip in the test: the empty batch in place of the single ticket.
ShortcutOnEmpty(t) == Len(t) = 0

\* Line 82: the test of the single-ticket shortcut
ShortcutApplies(t) == Len(t) = 1

Returned == pc \in {"idle", "done", "found"}

\* cluster_tickets, lines 80-89: entry, the single-ticket shortcut and the
\* choice of the path.
Call(t, limit) ==
    /\ Returned
    /\ callNo < limit
    /\ callNo' = callNo + 1
    /\ tickets' = t
    /\ embeddings' = <<>>
    /\ clusters' = <<>>
    /\ raised' = FALSE
    /\ failure' = ""
    /\ used' = {}
    /\ hits' = <<>>
    /\ absorbed' = {}
    /\ oracle' = <<>>
    /\ IF ShortcutApplies(t)
       THEN /\ result' = SingleTicketResult
            /\ tiers' = <<"shortcut">>
            /\ pc' = "done"
       ELSE /\ result' = EmptyMap
            /\ tiers' = IF use_openai THEN <<"embedding">> ELSE <<"lexical">>
            /\ pc' = IF use_openai THEN "embed" ELSE "tfidf"
    /\ UNCHANGED <<use_openai, vector_store, storeVars, auxVars>>

ClusterTickets(t) == Call(t, MaxCalls)

\* _generate_embeddings (line 108): the provider answers, or raises.
GenerateEmbeddings ==
    /\ pc = "embed"
    /\ used' = used \cup {"embedding provider"}
    /\ \E ok \in BOOLEAN :
         IF ok
         THEN /\ embeddings' = [i \in 1..Len(tickets) |-> EmbeddingOf(tickets[i])]
              /\ pc' = "store"
         ELSE /\ embeddings' = embeddings
              /\ pc' = "except"
    /\ failure' = IF pc' = "except" THEN "embedding provider" ELSE failure
    /\ UNCHANGED <<use_openai, vector_store, tickets, clusters, result, raised,
                   tiers, hits, callNo, absorbed, oracle, storeVars, auxVars>>

\* Lines 111-114: store the embeddings if there is a store; the value
\* store_embeddings returns is not looked at.
StoreBatch ==
    /\ pc = "store"
    /\ IF vector_store # NoStore
       THEN /\ vector_store' = StoreEmbeddings(vector_store, embeddings,
                                               BatchMetadata(tickets, callNo)).st
            /\ used' = used \cup {"vector store"}
       ELSE UNCHANGED <<vector_store, used>>
    /\ pc' = "kmeans"
    /\ UNCHANGED <<use_openai, tickets, embeddings, clusters, result, raised, failure,
                   tiers, hits, callNo, absorbed, oracle, storeVars, auxVars>>

\* Lines 117-128 and 253-264: k-means with the heuristic's k gives every ticket
\* a label in 0..k-1, or raises; the tickets are grouped by label.
KMeans ==
    /\ pc \in {"kmeans", "lexkmeans"}
    /\ \/ \E labels \in [1..Len(tickets) ->
                           0..(_determine_cluster_count(Len(tickets)) - 1)] :
            /\ clusters' = GroupByLabel(labels)
            /\ pc' = IF pc = "lexkmeans" THEN "rules"
                     ELSE IF vector_store # NoStore THEN "refine" ELSE "name"
       \/ /\ clusters' = clusters
          /\ pc' = "except"
    /\ failure' = IF pc' = "except" THEN "k-means" ELSE failure
    /\ UNCHANGED <<use_openai, vector_store, tickets, embeddings, result, raised,
                   tiers, used, hits, callNo, absorbed, oracle, storeVars, auxVars>>

\* Lines 131-132: the refinement against the store.
Enhance ==
    /\ pc = "refine"
    /\ LET e == _enhance_clusters_with_similarity(vector_store, clusters, embeddings)
       IN  /\ clusters' = e.cl
           /\ hits' = e.hits
    /\ pc' = "name"
    /\ UNCHANGED <<use_openai, vector_store, tickets, embeddings, result, raised, failure,
                   tiers, used, callNo, absorbed, oracle, storeVars, auxVars>>

\* Lines 135-138: name the clusters with the oracle and return.  An exception
\* of the oracle is handled per cluster (lines 190-193) and ends nothing.
GenerateClusterNames ==
    /\ pc = "name"
    /\ \E answers \in [1..Len(clusters) -> OracleAnswers] :
         /\ result' = _generate_cluster_names(clusters, answers)
         /\ absorbed' = IF \E c \in 1..Len(clusters) : answers[c] = OracleRaises
                         THEN absorbed \cup {"naming oracle"}
                         ELSE absorbed
         /\ oracle' = answers
    /\ used' = used \cup {"naming oracle"}
    /\ pc' = "done"
    /\ UNCHANGED <<use_openai, vector_store, tickets, embeddings, clusters, raised, failure,
                   tiers, hits, callNo, storeVars, auxVars>>

\* Lines 247-250: preprocessing and TF-IDF; fit_transform may raise (a batch
\* without vocabulary).
Vectorize ==
    /\ pc = "tfidf"
    /\ \E ok \in BOOLEAN : pc' = IF ok THEN "lexkmeans" ELSE "except"
    /\ failure' = IF pc' = "except" THEN "tf-idf" ELSE failure
    /\ UNCHANGED <<use_openai, vector_store, tickets, embeddings, clusters, result,
                   raised, tiers, used, hits, callNo, absorbed, oracle, storeVars, auxVars>>

\* Lines 267-270: the rule-based names, and return.
GenerateRuleBasedNames ==
    /\ pc = "rules"
    /\ result' = _generate_rule_based_names(tickets, clusters)
    /\ pc' = "done"
    /\ UNCHANGED <<use_openai, vector_store, tickets, embeddings, clusters, raised, failure,
                   tiers, used, hits, callNo, absorbed, oracle, storeVars, auxVars>>

\* Lines 90-93: an exception left the path; return the emergency fallback.
HandleException ==
    /\ pc = "except"
    /\ result' = EmergencyFallback(Len(tickets))
    /\ raised' = FALSE
    /\ tiers' = Append(tiers, "emergency")
    /\ pc' = "done"
    /\ UNCHANGED <<use_openai, vector_store, tickets, embeddings, clusters,
                   failure, used, hits, callNo, absorbed, oracle, storeVars, auxVars>>

\* The k values find_similar_tickets is asked for (5 is its default).
FindKs == {1, 5}

\* TicketClusteringEngine.find_similar_tickets between two cluster_tickets
\* calls; its result is kept in hits.  The finished call's locals are dropped.
FindSimilarTickets(query, k) ==
    /\ Returned
    /\ \E ok \in BOOLEAN :
         hits' = IF vector_store = NoStore \/ ~use_openai \/ ~ok THEN <<>>
                 ELSE SearchSimilarTickets(vector_store, EmbeddingOf(query), k,
                                           FindSimilarThreshold)
    /\ pc' = "found"
    /\ tickets' = <<>>
    /\ embeddings' = <<>>
    /\ clusters' = <<>>
    /\ result' = EmptyMap
    /\ tiers' = <<>>
    /\ used' = {}
    /\ oracle' = <<>>
    /\ UNCHANGED <<use_openai, vector_store, raised, failure, callNo, absorbed, storeVars,
                   auxVars>>

Next ==
    \/ \E t \in Batches : ClusterTickets(t)
    \/ GenerateEmbeddings
    \/ StoreBatch
    \/ KMeans
    \/ Enhance
    \/ GenerateClusterNames
    \/ Vectorize
    \/ GenerateRuleBasedNames
    \/ HandleException
    \/ \E q \in Texts, k \in FindKs : FindSimilarTickets(q, k)

Spec == Init /\ [][Next]_vars


----------------------------------------------------------------------------
(* An engine kept by its caller and used for several cluster_tickets       *)
(* calls.                                                                  *)

ClusterTicketsAgain(t) == Call(t, MaxSessionCalls)

SessionNext ==
    \/ \E t \in Batches : ClusterTicketsAgain(t)
    \/ GenerateEmbeddings
    \/ StoreBatch
    \/ KMeans
    \/ Enhance
    \/ GenerateClusterNames
    \/ Vectorize
    \/ GenerateRuleBasedNames
    \/ HandleException
    \/ \E q \in Texts, k \in FindKs : FindSimilarTickets(q, k)

SpecSession == Init /\ [][SessionNext]_vars

----------------------------------------------------------------------------
(* A TicketVectorStore used directly, one call at a time.                  *)

\* The engine of the first specification, left untouched here.
EngineParked ==
    /\ use_openai = FALSE /\ vector_store = NoStore /\ pc = "parked"
    /\ tickets = <<>> /\ embeddings = <<>> /\ clusters = <<>>
    /\ result = EmptyMap /\ raised = FALSE /\ failure = "" /\ tiers = <<>>
    /\ used = {} /\ hits = <<>> /\ callNo = 0 /\ absorbed = {}
    /\ oracle = <<>>

\* The vectors, queries and batches the store is called with.  Metadata
\* entries have the shape the engine gives them.
StoreVecs == {<<2, 0>>, <<4, 5>>}
WrongDimensionVec == <<1, 0, 0>>
Queries == StoreVecs \cup {WrongDimensionVec, <<>>}
DefaultThreshold == 700
SearchThresholds == {DefaultThreshold, Scale}

MetadataOf(n, call) == BatchMetadata([i \in 1..n |-> VpnText], call)

\* Batches of 0..MaxBatch vectors, the two vectors taking turns.
OtherVec(v) == CHOOSE w \in StoreVecs : w # v

SmallBatches ==
    {[i \in 1..n |-> IF i % 2 = 1 THEN v ELSE OtherVec(v)] :
        n \in 0..MaxBatch, v \in StoreVecs}

TrainingBatch == [i \in 1..MinTrainSize |-> <<2, 0>>]

\* Batches with as many metadata entries as vectors, with one more and with
\* one less; a batch of the wrong dimension; a batch large enough to train.
StoreArgs ==
    UNION {{[emb |-> e, n |-> m] : m \in {Len(e) - 1, Len(e), Len(e) + 1} \ {-1}} :
              e \in SmallBatches}
    \cup {[emb |-> <<WrongDimensionVec>>, n |-> 1],
          [emb |-> TrainingBatch, n |-> MinTrainSize]}

StoreInit ==
    /\ store \in {create_vector_store(2, "flat"), create_vector_store(2, "ivf")}
    /\ ipc = "idle"
    /\ iarg = [emb |-> <<>>, meta |-> <<>>]
    /\ ipre = NoStore
    /\ iret = None
    /\ spc = "idle"
    /\ sarg = [query |-> <<>>, k |-> 0, threshold |-> 0]
    /\ sview = <<>>
    /\ sret = <<>>
    /\ sobs = [ntotal |-> 0, nmeta |-> 0, error |-> FALSE]
    /\ nInserts = 0

\* What store_embeddings answers: the ValueError of line 74 is caught at line
\* 100 like every other exception, and the call returns False.
ReturnValue(ok) == IF ok THEN "True" ELSE "False"

\* No call of the insert kind, or of the search kind, is on record.
NoInsert ==
    /\ ipc' = "idle"
    /\ iarg' = [emb |-> <<>>, meta |-> <<>>]
    /\ ipre' = NoStore
    /\ iret' = None

NoSearch ==
    /\ spc' = "idle"
    /\ sarg' = [query |-> <<>>, k |-> 0, threshold |-> 0]
    /\ sret' = <<>>
    /\ sobs' = [ntotal |-> 0, nmeta |-> 0, error |-> FALSE]

\* store_embeddings(embeddings, metadata), the whole call.  The record of the
\* call before it is dropped.
StoreEmbeddingsCall(emb, meta) ==
    /\ ipc \in {"idle", "returned"} /\ spc \in {"idle", "returned"}
    /\ nInserts < MaxInserts
    /\ nInserts' = nInserts + 1
    /\ iarg' = [emb |-> emb, meta |-> meta]
    /\ ipre' = store
    /\ LET r == StoreEmbeddings(store, emb, meta)
       IN  /\ store' = r.st
           /\ iret' = ReturnValue(r.ret)
    /\ ipc' = "returned"
    /\ NoSearch
    /\ UNCHANGED <<sview, engineVars, auxVars>>

\* search_similar_tickets(query_embedding, k, threshold), the whole call.  The
\* record of the call before it is dropped.
SearchCall(query, k, threshold) ==
    /\ ipc \in {"idle", "returned"} /\ spc \in {"idle", "returned"}
    /\ sarg' = [query |-> query, k |-> k, threshold |-> threshold]
    /\ sret' \in SearchResults(store, query, k, threshold)
    /\ sobs' = [ntotal |-> Len(store.index), nmeta |-> Len(store.metadata),
                error |-> SearchEscapes(store, query)]
    /\ spc' = "returned"
    /\ NoInsert
    /\ UNCHANGED <<store, sview, nInserts, engineVars, auxVars>>

StoreNext ==
    \/ \E a \in StoreArgs : StoreEmbeddingsCall(a.emb, MetadataOf(a.n, nInserts + 1))
    \/ \E q \in Queries, k \in FindKs, th \in SearchThresholds : SearchCall(q, k, th)

\* A store on its own: no engine is running.
StoreAlone == StoreInit /\ EngineParked /\ AuxParked

SpecStore == StoreAlone /\ [][StoreNext]_vars

----------------------------------------------------------------------------
(* A TicketVectorStore shared by two threads, one inserting and one        *)
(* searching.  The store takes no lock, so the threads interleave between  *)
(* the statements of store_embeddings and search_similar_tickets.          *)

\* store_embeddings, entry.
InsertBegin(emb, meta) ==
    /\ ipc \in {"idle", "returned"}
    /\ nInserts < MaxInserts
    /\ nInserts' = nInserts + 1
    /\ iarg' = [emb |-> emb, meta |-> meta]
    /\ ipre' = store
    /\ iret' = None
    /\ ipc' = "prepare"
    /\ UNCHANGED <<store, spc, sarg, sview, sret, sobs, engineVars, auxVars>>

\* Lines 73-90: validation, training decision and the is_trained test.
InsertPrepare ==
    /\ ipc = "prepare"
    /\ LET p == StorePrepare(store, iarg.emb, iarg.meta)
       IN  /\ store' = p.st
           /\ IF p.ok /\ p.st.is_trained
              THEN ipc' = "add" /\ iret' = iret
              ELSE ipc' = "returned" /\ iret' = ReturnValue(FALSE)
    /\ UNCHANGED <<iarg, ipre, spc, sarg, sview, sret, sobs, nInserts, engineVars, auxVars>>

\* Line 91: index.add
InsertAdd ==
    /\ ipc = "add"
    /\ LET a == IndexAdd(store, iarg.emb)
       IN  /\ store' = a.st
           /\ IF a.ok
              THEN ipc' = "extend" /\ iret' = iret
              ELSE ipc' = "returned" /\ iret' = ReturnValue(FALSE)
    /\ UNCHANGED <<iarg, ipre, spc, sarg, sview, sret, sobs, nInserts, engineVars, auxVars>>

\* Lines 92-95: metadata.extend, return True
InsertExtend ==
    /\ ipc = "extend"
    /\ store' = MetadataExtend(store, iarg.meta)
    /\ iret' = ReturnValue(TRUE)
    /\ ipc' = "returned"
    /\ UNCHANGED <<iarg, ipre, spc, sarg, sview, sret, sobs, nInserts, engineVars, auxVars>>

\* search_similar_tickets, lines 117-120: entry and the test for an empty
\* index.
SearchBegin(query, k, threshold) ==
    /\ spc \in {"idle", "returned"}
    /\ sarg' = [query |-> query, k |-> k, threshold |-> threshold]
    /\ sview' = <<>>
    /\ sobs' = [ntotal |-> 0, nmeta |-> 0, error |-> FALSE]
    /\ IF Len(store.index) = 0
       THEN spc' = "returned" /\ sret' = <<>>
       ELSE spc' = "search" /\ sret' = sret
    /\ UNCHANGED <<store, ipc, iarg, ipre, iret, nInserts, engineVars, auxVars>>

\* Lines 123-126: index.search; it raises on a query of the wrong dimension.
SearchIndex ==
    /\ spc = "search"
    /\ IF Len(sarg.query) # store.dimension
       THEN /\ spc' = "returned" /\ sret' = <<>>
            /\ UNCHANGED <<sview, sobs>>
       ELSE /\ sview' \in IndexSearchViews(store, sarg.query, sarg.k)
            /\ sobs' = [sobs EXCEPT !.ntotal = Len(store.index)]
            /\ spc' = "lookup" /\ sret' = sret
    /\ UNCHANGED <<store, ipc, iarg, ipre, iret, sarg, nInserts, engineVars, auxVars>>

\* Lines 129-137: the metadata lookups, and return.
SearchLookup ==
    /\ spc = "lookup"
    /\ sret' = FilterResults(sview, store.metadata, sarg.threshold)
    /\ sobs' = [sobs EXCEPT !.nmeta = Len(store.metadata)]
    /\ spc' = "returned"
    /\ UNCHANGED <<store, ipc, iarg, ipre, iret, sarg, sview, nInserts, engineVars, auxVars>>

RaceBatches == UNION {[1..n -> StoreVecs] : n \in 1..MaxBatch}

RaceNext ==
    \/ \E e \in RaceBatches : InsertBegin(e, MetadataOf(Len(e), nInserts + 1))
    \/ InsertPrepare
    \/ InsertAdd
    \/ InsertExtend
    \/ \E q \in StoreVecs, k \in FindKs : SearchBegin(q, k, DefaultThreshold)
    \/ SearchIndex
    \/ SearchLookup

SpecRace == StoreAlone /\ [][RaceNext]_vars


----------------------------------------------------------------------------
(* A TicketVectorStore that is also saved to and loaded from one filepath. *)
(* disk.faiss is <<>> while "{filepath}.faiss" does not exist and <<index>> *)
(* once it was written; disk.pkl likewise for "{filepath}_metadata.pkl".    *)

\* Lines 214-220: what save_index pickles
Pickled(st) ==
    [metadata |-> st.metadata, dimension |-> st.dimension,
     index_type |-> st.index_type, is_trained |-> st.is_trained]

\* save_index(filepath), lines 201-227: write_index, then the metadata file;
\* either write may fail (the directory is missing, the disk is full), the
\* exception is caught and the call returns False.  written is the number of
\* files the call got to write.
SaveIndex(written) ==
    /\ ipc \in {"idle", "returned"} /\ spc \in {"idle", "returned"}
    /\ disk' = [faiss |-> IF written >= 1 THEN <<store.index>> ELSE disk.faiss,
                pkl |-> IF written = 2 THEN <<Pickled(store)>> ELSE disk.pkl]
    /\ fn' = "save_index"
    /\ arg' = <<>>
    /\ out' = <<ReturnValue(written = 2)>>
    /\ NoInsert
    /\ NoSearch
    /\ UNCHANGED <<store, sview, nInserts, digest_cache, now, engineVars>>

\* load_index(filepath), lines 229-256: self.index is assigned as soon as
\* read_index returned (line 241); the four other fields are assigned after
\* the metadata file was opened and unpickled.  A file that does not exist
\* makes its step raise; the exception is caught and the call returns False.
LoadIndex ==
    /\ ipc \in {"idle", "returned"} /\ spc \in {"idle", "returned"}
    /\ store' =
         IF disk.faiss = <<>> THEN store
         ELSE IF disk.pkl = <<>> THEN [store EXCEPT !.index = disk.faiss[1]]
         ELSE [index |-> disk.faiss[1],
               metadata |-> disk.pkl[1].metadata,
               dimension |-> disk.pkl[1].dimension,
               index_type |-> disk.pkl[1].index_type,
               is_trained |-> disk.pkl[1].is_trained]
    /\ fn' = "load_index"
    /\ arg' = <<>>
    /\ out' = <<ReturnValue(disk.faiss # <<>> /\ disk.pkl # <<>>)>>
    /\ NoInsert
    /\ NoSearch
    /\ UNCHANGED <<sview, nInserts, digest_cache, now, disk, engineVars>>

DiskNext ==
    \/ \E v \in StoreVecs : StoreEmbeddingsCall(<<v>>, MetadataOf(1, nInserts + 1))
    \/ \E q \in StoreVecs : SearchCall(q, 5, DefaultThreshold)
    \/ \E written \in 0..2 : SaveIndex(written)
    \/ LoadIndex

SpecDisk == StoreAlone /\ [][DiskNext]_vars

\* C21: in every state of a store, after any store_embeddings,
\* search_similar_tickets, save_index and load_index calls, failed ones
\* included, the index holds as many vectors as there are metadata entries.
C21_IndexMatchesMetadata == Len(store.index) = Len(store.metadata)

----------------------------------------------------------------------------
(* _enhance_clusters_with_similarity on its own, one search result at a    *)
(* time, for the partitions k-means can hand it and for any search         *)
(* results: the store is shared, so a result may repeat a ticket index,    *)
(* name an index outside the batch, or come from a metadata entry that has *)
(* no 'ticket_index' key.  clusters is the map whose lists both clusters   *)
(* and enhanced_clusters hold; arg.clusters is history, the map as it was  *)
(* passed; arg.c is the position of the outer loop, arg.i the number of    *)
(* results of the current search the inner loop has read, hits the result  *)
(* read last.  A search returns at most MaxHits results.                   *)

\* The k-means assignments of 2..MaxRefined tickets, up to a renaming of the
\* tickets: every cluster holds consecutive tickets.
RefinePartitions ==
    UNION {{GroupByLabel(labels) :
               labels \in {l \in [1..n -> 0..(_determine_cluster_count(n) - 1)] :
                              \A i \in 1..(n - 1) : l[i] <= l[i + 1]}} :
           n \in 2..MaxRefined}

\* The tickets of a cluster map
BatchSize(cl) == SumSeq([c \in 1..Len(cl) |-> Len(cl[c].members)])

\* What a search may return for a batch of n tickets: results above the move
\* threshold for every ticket and for an index outside the batch, one at the
\* threshold, and one without the key.
SearchResultsFor(n) ==
    {[ticket_index |-> t, similarity_score |-> 900, has_key |-> TRUE] : t \in 0..n}
    \cup {[ticket_index |-> 0, similarity_score |-> RefineMoveThreshold, has_key |-> TRUE],
          [ticket_index |-> 0, similarity_score |-> 900, has_key |-> FALSE]}

\* The return of line 403 without the clean-up of line 401
CleanUpSkipped(cl) == cl

\* Line 401: the empty clusters are dropped
CleanUp(cl) == SelectSeq(cl, LAMBDA e : e.members # <<>>)

RefineInit ==
    /\ use_openai = TRUE /\ vector_store = NoStore /\ pc = "refine-cluster"
    /\ tickets = <<>> /\ embeddings = <<>>
    /\ clusters \in RefinePartitions
    /\ result = EmptyMap /\ raised = FALSE /\ failure = "" /\ tiers = <<>>
    /\ used = {} /\ hits = <<>> /\ callNo = 0 /\ absorbed = {}
    /\ oracle = <<>>
    /\ fn = "_enhance_clusters_with_similarity"
    /\ arg = [clusters |-> clusters, c |-> 1, i |-> 0]
    /\ out = <<>>
    /\ digest_cache = <<>> /\ now = 0
    /\ disk = [faiss |-> <<>>, pkl |-> <<>>]
    /\ StoreParked

\* Lines 364-365 and 369-370: a cluster whose list has fewer than 2 members
\* by now, or for which get_cluster_representatives gave nothing, is skipped.
SkipCluster ==
    /\ pc = "refine-cluster"
    /\ arg.c <= Len(clusters)
    /\ arg' = [arg EXCEPT !.c = @ + 1]
    /\ UNCHANGED <<pc, clusters, hits, out>>

\* Lines 372-378: the search with the cluster's representative
SearchForCluster ==
    /\ pc = "refine-cluster"
    /\ arg.c <= Len(clusters)
    /\ Len(clusters[arg.c].members) >= 2
    /\ hits' = <<>>
    /\ arg' = [arg EXCEPT !.i = 0]
    /\ pc' = "refine-neighbours"
    /\ UNCHANGED <<clusters, out>>

\* Lines 381-398: one round of the inner loop
ConsiderNeighbour(similar_ticket) ==
    /\ pc = "refine-neighbours"
    /\ arg.i < MaxHits
    /\ similar_ticket.has_key
    /\ hits' = <<similar_ticket>>
    /\ clusters' = MoveSimilar(clusters, arg.c, <<similar_ticket>>, 1)
    /\ arg' = [arg EXCEPT !.i = @ + 1]
    /\ UNCHANGED <<pc, out>>

\* The results are exhausted: on to the next cluster.
NeighboursDone ==
    /\ pc = "refine-neighbours"
    /\ arg' = [arg EXCEPT !.c = @ + 1, !.i = 0]
    /\ hits' = <<>>
    /\ pc' = "refine-cluster"
    /\ UNCHANGED <<clusters, out>>

\* Line 382 raises KeyError; lines 405-407 catch it and return clusters, the
\* dict that was passed, whose lists are the ones the loop has been changing.
EnhanceFails(similar_ticket) ==
    /\ pc = "refine-neighbours"
    /\ arg.i < MaxHits
    /\ ~similar_ticket.has_key
    /\ hits' = <<similar_ticket>>
    /\ out' = clusters
    /\ pc' = "refine-failed"
    /\ UNCHANGED <<clusters, arg>>

\* Lines 400-403: the normal return
EnhanceReturns ==
    /\ pc = "refine-cluster"
    /\ arg.c > Len(clusters)
    /\ out' = CleanUp(clusters)
    /\ pc' = "refined"
    /\ UNCHANGED <<clusters, hits, arg>>

RefineNext ==
    /\ \/ SkipCluster
       \/ SearchForCluster
       \/ \E similar_ticket \in SearchResultsFor(BatchSize(clusters)) :
            ConsiderNeighbour(similar_ticket)
       \/ NeighboursDone
       \/ \E similar_ticket \in SearchResultsFor(BatchSize(clusters)) :
            EnhanceFails(similar_ticket)
       \/ EnhanceReturns
    /\ UNCHANGED <<use_openai, vector_store, tickets, embeddings, result, raised,
                   failure, tiers, used, callNo, absorbed, oracle, fn, digest_cache,
                   now, disk, storeVars>>

SpecRefine == RefineInit /\ [][RefineNext]_vars

\* C14: search_similar_tickets never returns a result whose similarity_score
\* is below the threshold of the call, nor one outside [-1, 1].
C14_ScoreBounds ==
    spc = "returned" =>
        \A i \in 1..Len(sret) :
            /\ sret[i].similarity_score >= sarg.threshold
            /\ sret[i].similarity_score >= -Scale
            /\ sret[i].similarity_score <= Scale

\* C15: search_similar_tickets on a store that holds no vectors returns the
\* empty list, and no exception leaves it, whatever the query, k and
\* threshold.
C15_EmptyStoreSearch ==
    (spc = "returned" /\ sobs.ntotal = 0) => (sret = <<>> /\ ~sobs.error)

\* C15 witness: the empty query was put to a store that holds no vectors.
C15_Witness ==
    spc = "returned" /\ sobs.ntotal = 0 /\ store.index = <<>> /\ sarg.query = <<>>

----------------------------------------------------------------------------
(* The request cache of main.py.  A request is a validated TicketRequest   *)
(* (models.py): tickets, avg_time_per_ticket_minutes (an int) and          *)
(* hourly_cost_usd (a float the validator rounded to two decimals, kept    *)
(* here as a number of cents).  Times are minutes.                         *)

\* The printable ASCII characters of code points 32 to 95 and 97 to 126
AsciiLow ==
    <<" ", "!", "\"", "#", "$", "%", "&", "'", "(", ")", "*", "+", ",",
      "-", ".", "/", "0", "1", "2", "3", "4", "5", "6", "7", "8", "9", ":",
      ";", "<", "=", ">", "?", "@", "A", "B", "C", "D", "E", "F", "G", "H",
      "I", "J", "K", "L", "M", "N", "O", "P", "Q", "R", "S", "T", "U", "V",
      "W", "X", "Y", "Z", "[", "\\", "]", "^", "_">>
AsciiHigh ==
    <<"a", "b", "c", "d", "e", "f", "g", "h", "i", "j", "k", "l", "m", "n",
      "o", "p", "q", "r", "s", "t", "u", "v", "w", "x", "y", "z", "{", "|",
      "}", "~">>

\* ord(c)
CodePoint(c) ==
    IF \E i \in 1..Len(AsciiLow) : AsciiLow[i] = c
    THEN 31 + (CHOOSE i \in 1..Len(AsciiLow) : AsciiLow[i] = c)
    ELSE 96 + (CHOOSE i \in 1..Len(AsciiHigh) : AsciiHigh[i] = c)

\* a < b for two str: code point by code point, a proper prefix first
RECURSIVE StrLess(_, _)
StrLess(a, b) ==
    IF b = <<>> THEN FALSE
    ELSE IF a = <<>> THEN TRUE
    ELSE IF Head(a) = Head(b) THEN StrLess(Tail(a), Tail(b))
    ELSE CodePoint(Head(a)) < CodePoint(Head(b))

\* sorted(list) for a list of str
RECURSIVE Sorted(_)
Sorted(list) ==
    IF list = <<>> THEN <<>>
    ELSE LET least == CHOOSE i \in 1..Len(list) :
                          /\ \A j \in 1..Len(list) : ~StrLess(list[j], list[i])
                          /\ \A j \in 1..(i - 1) : list[j] # list[i]
         IN  <<list[least]>> \o
             Sorted([j \in 1..(Len(list) - 1) |->
                        IF j < least THEN list[j] ELSE list[j + 1]])

DigitChars == <<"0", "1", "2", "3", "4", "5", "6", "7", "8", "9">>

\* json.dumps of an int >= 0
RECURSIVE JsonInt(_)
JsonInt(n) ==
    IF n < 10 THEN <<DigitChars[n + 1]>>
    ELSE Append(JsonInt(n \div 10), DigitChars[(n % 10) + 1])

\* json.dumps of a float with at most two decimals (float.__repr__): "50.0",
\* "50.5", "50.25"
JsonFloat(cents) ==
    JsonInt(cents \div 100) \o <<".">> \o
    (IF cents % 10 = 0 THEN <<DigitChars[((cents % 100) \div 10) + 1]>>
     ELSE <<DigitChars[((cents % 100) \div 10) + 1], DigitChars[(cents % 10) + 1]>>)

\* A slip in the encoder: the text between quotes as it is.
JsonStringUnescaped(text) == <<"\"">> \o text \o <<"\"">>

\* The JSON encoder's escaping of a str: a backslash before every quote and
\* backslash
RECURSIVE JsonEscape(_)
JsonEscape(text) ==
    IF text = <<>> THEN <<>>
    ELSE (IF Head(text) \in {"\"", "\\"} THEN <<"\\", Head(text)>>
          ELSE <<Head(text)>>) \o JsonEscape(Tail(text))

\* json.dumps of a str
JsonString(text) == <<"\"">> \o JsonEscape(text) \o <<"\"">>

\* The items of a JSON list of str, separated by ", "
RECURSIVE JsonItems(_)
JsonItems(list) ==
    IF list = <<>> THEN <<>>
    ELSE IF Len(list) = 1 THEN JsonString(list[1])
    ELSE JsonString(Head(list)) \o <<",", " ">> \o JsonItems(Tail(list))

\* Line 106: json.dumps(cache_data, sort_keys=True)
JsonDumps(cache_data) ==
    <<"{", "\"", "a", "v", "g", "_", "t", "i", "m", "e", "_", "p", "e",
      "r", "_", "t", "i", "c", "k", "e", "t", "_", "m", "i", "n", "u", "t",
      "e", "s", "\"", ":", " ">>
    \o JsonInt(cache_data.avg_time_per_ticket_minutes) \o
    <<",", " ", "\"", "h", "o", "u", "r", "l", "y", "_", "c", "o", "s",
      "t", "_", "u", "s", "d", "\"", ":", " ">>
    \o JsonFloat(cache_data.hourly_cost_usd) \o
    <<",", " ", "\"", "t", "i", "c", "k", "e", "t", "s", "\"", ":", " ",
      "[">>
    \o JsonItems(cache_data.tickets) \o <<"]", "}">>

\* Line 107: hashlib.sha256(...).hexdigest().  SHA-256 is taken to be free of
\* collisions: a digest stands for the one string it was computed from.
Sha256Hex(cache_string) == [sha256 |-> cache_string]

\* generate_cache_key(request)
generate_cache_key(request) ==
    Sha256Hex(JsonDumps(
        [tickets |-> Sorted(request.tickets),
         avg_time_per_ticket_minutes |-> request.avg_time_per_ticket_minutes,
         hourly_cost_usd |-> request.hourly_cost_usd]))

\* The requests keys are computed for: one to MaxKeyTickets tickets, one of
\* them spelling the quote-comma-quote that separates two list items.
KeyTickets ==
    {<<"V", "P", "N", " ", "1">>, <<"V", "P", "N", " ", "2">>,
     <<"V", "P", "N", " ", "1", "\"", ",", " ", "\"", "V", "P", "N", " ", "2">>}
AvgTimes == {30, 45}
HourlyCosts == {5000, 5025}
Requests ==
    {[tickets |-> t, avg_time_per_ticket_minutes |-> a, hourly_cost_usd |-> h] :
        t \in UNION {[1..n -> KeyTickets] : n \in 1..MaxKeyTickets},
        a \in AvgTimes, h \in HourlyCosts}

\* ClusterResult (models.py): the bounds of the two text fields and of the
\* number of clusters
SuggestionMinLength == 10
SuggestionMaxLength == 200
SummaryMinLength == 50
SummaryMaxLength == 300
MaxClusters == 10

\* validate_suggestion, lines 152-157: the words of the actionable patterns
actionable_patterns ==
    {<<"c", "r", "e", "a", "t", "e">>,
     <<"i", "m", "p", "l", "e", "m", "e", "n", "t">>,
     <<"d", "e", "v", "e", "l", "o", "p">>,
     <<"e", "s", "t", "a", "b", "l", "i", "s", "h">>,
     <<"s", "e", "t", " ", "u", "p">>,
     <<"b", "u", "i", "l", "d">>,
     <<"d", "e", "s", "i", "g", "n">>,
     <<"i", "m", "p", "r", "o", "v", "e">>,
     <<"e", "n", "h", "a", "n", "c", "e">>,
     <<"o", "p", "t", "i", "m", "i", "z", "e">>,
     <<"s", "t", "r", "e", "a", "m", "l", "i", "n", "e">>,
     <<"a", "u", "t", "o", "m", "a", "t", "e">>,
     <<"p", "r", "o", "v", "i", "d", "e">>,
     <<"o", "f", "f", "e", "r">>,
     <<"a", "d", "d">>,
     <<"i", "n", "c", "l", "u", "d", "e">>,
     <<"i", "n", "t", "e", "g", "r", "a", "t", "e">>,
     <<"t", "r", "a", "i", "n">>,
     <<"e", "d", "u", "c", "a", "t", "e">>,
     <<"d", "o", "c", "u", "m", "e", "n", "t">>,
     <<"s", "t", "a", "n", "d", "a", "r", "d", "i", "z", "e">>}

\* validate_digest_summary, lines 193-198: the alternatives of the patterns
\* after the first (which asks for a digit)
required_patterns ==
    <<{<<"c", "l", "u", "s", "t", "e", "r">>,
       <<"c", "a", "t", "e", "g", "o", "r">>,
       <<"g", "r", "o", "u", "p">>,
       <<"i", "s", "s", "u", "e">>,
       <<"p", "r", "o", "b", "l", "e", "m">>},
      {<<"s", "u", "g", "g", "e", "s", "t", "i", "o", "n">>,
       <<"r", "e", "c", "o", "m", "m", "e", "n", "d", "a", "t", "i", "o",
         "n">>,
       <<"i", "m", "p", "r", "o", "v", "e">>,
       <<"s", "o", "l", "u", "t", "i", "o", "n">>},
      {<<"$">>,
       <<"d", "o", "l", "l", "a", "r">>,
       <<"c", "o", "s", "t">>,
       <<"s", "a", "v", "i", "n", "g">>,
       <<"h", "o", "u", "r">>}>>

\* re.search(r'\b(word)\b', text): the word with no word character on either
\* side of it
ContainsWord(text, word) ==
    \E i \in 1..(Len(text) - Len(word) + 1) :
        /\ SubSeq(text, i, i + Len(word) - 1) = word
        /\ i = 1 \/ ~IsWord(text[i - 1])
        /\ i + Len(word) - 1 = Len(text) \/ ~IsWord(text[i + Len(word)])

\* validate_clusters, lines 109-141 (names are not looked into: those of the
\* model are neither blank nor longer than 50 characters)
ValidClusters(v) ==
    /\ DOMAIN v # {}
    /\ Cardinality(DOMAIN v) <= MaxClusters
    /\ \A name \in DOMAIN v :
           /\ v[name] # <<>>
           /\ \A i \in 1..Len(v[name]) : v[name][i] >= 0
           /\ \A j \in 1..Len(v[name]) :
                  \A other \in DOMAIN v :
                      \A k \in 1..Len(v[other]) :
                          (other # name \/ k # j) => v[other][k] # v[name][j]

\* The suggestion field: the length bounds of Field (lines 83-88) are tested
\* on the value passed, then validate_suggestion (lines 143-166) strips it.
ValidSuggestion(v) ==
    /\ Len(v) >= SuggestionMinLength
    /\ Len(v) <= SuggestionMaxLength
    /\ Strip(v) # <<>>
    /\ \E word \in actionable_patterns : ContainsWord(Lower(Strip(v)), word)

\* The digest_summary field: the length bounds of Field (lines 102-107), then
\* validate_digest_summary (lines 184-209).
ValidSummary(v) ==
    /\ Len(v) >= SummaryMinLength
    /\ Len(v) <= SummaryMaxLength
    /\ Strip(v) # <<>>
    /\ \E i \in 1..Len(v) : v[i] \in Digits
    /\ \A p \in 1..Len(required_patterns) :
           \E word \in required_patterns[p] : Contains(Lower(Strip(v)), word)

\* ClusterResult(**kwargs): the object, or a ValidationError.  Hours are kept
\* in tenths and dollars in cents, which the rounding of lines 168-182 leaves
\* as they are.
ClusterResult(kwargs) ==
    IF /\ ValidClusters(kwargs.clusters)
       /\ ValidSuggestion(kwargs.suggestion)
       /\ kwargs.time_wasted_hours >= 0
       /\ kwargs.cost_saved_usd >= 0
       /\ ValidSummary(kwargs.digest_summary)
    THEN [ok |-> TRUE,
          value |-> [kwargs EXCEPT !.suggestion = Strip(@),
                                   !.digest_summary = Strip(@)]]
    ELSE [ok |-> FALSE, value |-> kwargs]

\* The summary of the result test_caching.py stores
TestSummary ==
    <<"1", " ", "t", "i", "c", "k", "e", "t", " ", "c", "l", "u", "s", "t",
      "e", "r", "e", "d", " ", "i", "n", "t", "o", " ", "1", " ", "c", "a",
      "t", "e", "g", "o", "r", "y", ".", " ", "P", "r", "i", "m", "a", "r",
      "y", " ", "i", "s", "s", "u", "e", ":", " ", "T", "e", "s", "t", " ",
      "I", "s", "s", "u", "e", "s", " ", "(", "1", " ", "t", "i", "c", "k",
      "e", "t", ")", ".", " ", "R", "e", "c", "o", "m", "m", "e", "n", "d",
      "a", "t", "i", "o", "n", ":", " ", "C", "r", "e", "a", "t", "e", " ",
      "t", "e", "s", "t", " ", "g", "u", "i", "d", "e", ".", " ", "P", "o",
      "t", "e", "n", "t", "i", "a", "l", " ", "s", "a", "v", "i", "n", "g",
      "s", ":", " ", "0", ".", "5", " ", "h", "o", "u", "r", "s", ",", " ",
      "$", "2", "5", ".">>

\* The keyword arguments results are made from: those of test_caching.py, and
\* the same with a ten-character suggestion that ends in two spaces.
ResultArguments ==
    {[clusters |-> Put(EmptyMap, "Test Issues", <<0>>),
      suggestion |-> s,
      time_wasted_hours |-> 5,
      cost_saved_usd |-> 2500,
      digest_summary |-> TestSummary] :
        s \in {<<"C", "r", "e", "a", "t", "e", " ", "t", "e", "s", "t", " ",
                "g", "u", "i", "d", "e">>,
              <<"A", "d", "d", " ", "g", "u", "i", "d", "e", "s">>,
              <<"a", "d", "d", " ", "d", "o", "c", "s", " ", " ">>}}

\* The ClusterResult objects a caller can hold
Results == {ClusterResult(kwargs).value : kwargs \in {k \in ResultArguments : ClusterResult(k).ok}}

\* The keys of two requests
CacheKeys ==
    {generate_cache_key([tickets |-> <<<<"V", "P", "N", " ", "1">>>>,
                         avg_time_per_ticket_minutes |-> a,
                         hourly_cost_usd |-> 5000]) : a \in AvgTimes}

CACHE_TTL_MINUTES == 60

\* del digest_cache[cache_key]
Del(cache, cache_key) == [k \in (DOMAIN cache) \ {cache_key} |-> cache[k]]

\* Lines 141-143: the test of expiry
Expired(cached_entry, current_time) ==
    current_time > cached_entry.timestamp + CACHE_TTL_MINUTES

----------------------------------------------------------------------------
(* The pure functions of the engine and of the store, applied on their own *)
(* to arguments drawn from bounded sets.                                   *)

\* Each behaviour applies one function to one argument.
PureInit == EngineParked /\ StoreParked /\ AuxParked

\* _determine_cluster_count(num_tickets)
DetermineClusterCount(num_tickets) ==
    /\ fn = ""
    /\ fn' = "_determine_cluster_count"
    /\ arg' = num_tickets
    /\ out' = _determine_cluster_count(num_tickets)
    /\ UNCHANGED <<digest_cache, now, disk, engineVars, storeVars>>

\* _preprocess_ticket(ticket)
PreprocessTicket(ticket) ==
    /\ fn = ""
    /\ fn' = "_preprocess_ticket"
    /\ arg' = ticket
    /\ out' = _preprocess_ticket(ticket)
    /\ UNCHANGED <<digest_cache, now, disk, engineVars, storeVars>>

\* _preprocess_ticket applied to what it returned: arg is the text that was
\* passed the second time, out what came back.
PreprocessAgain ==
    /\ fn = "_preprocess_ticket"
    /\ fn' = "_preprocess_ticket again"
    /\ arg' = out
    /\ out' = _preprocess_ticket(out)
    /\ UNCHANGED <<digest_cache, now, disk, engineVars, storeVars>>

\* The selections of vectors the cohesion is computed for: up to MaxSelected
\* vectors, among them opposite, orthogonal and zero ones.
CohesionVecs == {<<1, 0>>, <<0, 1>>, <<-1, 0>>, <<0, 0>>}
Selections == UNION {[1..n -> CohesionVecs] : n \in 0..MaxSelected}

\* _calculate_cluster_cohesion(cluster_embeddings)
CalculateClusterCohesion(cluster_embeddings) ==
    /\ fn = ""
    /\ fn' = "_calculate_cluster_cohesion"
    /\ arg' = cluster_embeddings
    /\ out' = _calculate_cluster_cohesion(cluster_embeddings)
    /\ UNCHANGED <<digest_cache, now, disk, engineVars, storeVars>>

\* The cluster maps the naming is applied to: up to MaxNamed tickets, grouped
\* by any labelling of them.
NamedBatches == UNION {[1..n -> Texts] : n \in 1..MaxNamed}

\* _generate_rule_based_names(tickets, clusters)
GenerateRuleBasedNamesOf(tks, labels) ==
    /\ fn = ""
    /\ fn' = "_generate_rule_based_names"
    /\ arg' = [tickets |-> tks, clusters |-> GroupByLabel(labels)]
    /\ out' = _generate_rule_based_names(tks, GroupByLabel(labels))
    /\ UNCHANGED <<digest_cache, now, disk, engineVars, storeVars>>

\* Tickets with two keywords of one category, with one keyword each of two
\* categories (one in upper case), with a keyword inside a longer word, and
\* with no keyword at all.
KeywordTexts ==
    {<<"v", "p", "n", " ", "d", "n", "s">>,
     <<"M", "O", "U", "S", "E", " ", "c", "a", "l", "l">>,
     <<"p", "r", "o", "f", "i", "l", "e", "s">>,
     <<"s", "l", "o", "w">>}

\* _generate_rule_based_names(tickets, clusters) for one cluster holding the
\* whole batch
NameSingleCluster(tks) ==
    /\ fn = ""
    /\ fn' = "_generate_rule_based_names"
    /\ arg' = [tickets |-> tks, clusters |-> GroupByLabel([i \in 1..Len(tks) |-> 0])]
    /\ out' = _generate_rule_based_names(tks, GroupByLabel([i \in 1..Len(tks) |-> 0]))
    /\ UNCHANGED <<digest_cache, now, disk, engineVars, storeVars>>

\* generate_cache_key applied to two requests
GenerateCacheKeys(request1, request2) ==
    /\ fn = ""
    /\ fn' = "generate_cache_key"
    /\ arg' = <<request1, request2>>
    /\ out' = <<generate_cache_key(request1), generate_cache_key(request2)>>
    /\ UNCHANGED <<digest_cache, now, disk, engineVars, storeVars>>

\* The batches the refinement is applied to: 2..MaxOrdered embeddings in a
\* store that holds nothing else, the tickets taken in the order of
\* OrderedVecs and grouped into consecutive clusters.
OrderedVecs == <<<<9, 4>>, <<5, 0>>, <<7, 7>>, <<2, 5>>>>
OrderedEmbeddings ==
    UNION {{[i \in 1..n |-> OrderedVecs[pick[i]]] :
               pick \in {p \in [1..n -> 1..Len(OrderedVecs)] :
                            \A i \in 1..(n - 1) : p[i] <= p[i + 1]}} :
           n \in 2..MaxOrdered}
OrderedLabels(n) ==
    {l \in [1..n -> 0..(_determine_cluster_count(n) - 1)] :
        \A i \in 1..(n - 1) : l[i] <= l[i + 1]}

StoreOf(emb) ==
    StoreEmbeddings(create_vector_store(2, "flat"), emb,
                    BatchMetadata([i \in 1..Len(emb) |-> "ticket"], 1)).st

Reverse(s) == [i \in 1..Len(s) |-> s[Len(s) + 1 - i]]

\* _enhance_clusters_with_similarity(tickets, clusters, embeddings) for the
\* dict as k-means built it and for the same dict with its items in the
\* opposite order
EnhanceInBothOrders(emb, labels) ==
    /\ fn = ""
    /\ fn' = "_enhance_clusters_with_similarity"
    /\ arg' = [clusters |-> GroupByLabel(labels), embeddings |-> emb]
    /\ out' = [forward |-> _enhance_clusters_with_similarity(
                               StoreOf(emb), GroupByLabel(labels), emb).cl,
               backward |-> _enhance_clusters_with_similarity(
                               StoreOf(emb), Reverse(GroupByLabel(labels)), emb).cl]
    /\ UNCHANGED <<digest_cache, now, disk, engineVars, storeVars>>

\* One function is applied to one argument; _preprocess_ticket may then be
\* applied to what it returned.
PureNext ==
    \/ /\ fn = ""
       /\ \/ \E n \in 1..MaxCountN : DetermineClusterCount(n)
          \/ \E request1 \in Requests, request2 \in Requests :
               GenerateCacheKeys(request1, request2)
          \/ \E tks \in NamedBatches :
               \E labels \in [1..Len(tks) -> 0..(Len(tks) - 1)] :
                   GenerateRuleBasedNamesOf(tks, labels)
          \/ \E tks \in UNION {[1..n -> KeywordTexts] : n \in 1..MaxNamed} :
               NameSingleCluster(tks)
          \/ \E e \in Selections : CalculateClusterCohesion(e)
          \/ \E t \in RawTexts : PreprocessTicket(t)
          \/ \E emb \in OrderedEmbeddings : \E labels \in OrderedLabels(Len(emb)) :
               EnhanceInBothOrders(emb, labels)
    \/ PreprocessAgain

SpecPure == PureInit /\ [][PureNext]_vars

----------------------------------------------------------------------------
(* The request cache of main.py used by its three functions while the      *)
(* clock advances.  Every entry is one cache_result wrote, so its          *)
(* timestamp is a datetime (never missing, never a str).                   *)

CacheInit == EngineParked /\ StoreParked /\ AuxParked

\* The steps datetime.utcnow() is seen to advance by, in minutes
ClockSteps == {30, 31}

\* Time passes between two calls; no call is on record any more.
Tick(minutes) ==
    /\ now + minutes <= MaxNow
    /\ now' = now + minutes
    /\ fn' = "" /\ arg' = <<>> /\ out' = <<>>
    /\ UNCHANGED <<digest_cache, disk, engineVars, storeVars>>

\* cache_result(cache_key, result), lines 158-173
CacheResult(cache_key, cluster_result) ==
    /\ digest_cache' = Put(digest_cache, cache_key,
                           [result |-> cluster_result, timestamp |-> now])
    /\ fn' = "cache_result"
    /\ arg' = [cache_key |-> cache_key, entry |-> <<cluster_result>>]
    /\ out' = <<>>
    /\ UNCHANGED <<now, disk, engineVars, storeVars>>

\* get_cached_result(cache_key), lines 110-155.  out is <<>> for None and
\* <<result>> for a result; arg.entry is history, the entry the lookup found
\* (<<>> if none).
GetCachedResult(cache_key) ==
    /\ fn' = "get_cached_result"
    /\ IF cache_key \notin DOMAIN digest_cache
       THEN /\ arg' = [cache_key |-> cache_key, entry |-> <<>>]
            /\ out' = <<>>
            /\ UNCHANGED digest_cache
       ELSE LET cached_entry == digest_cache[cache_key]
                made == ClusterResult(cached_entry.result)
            IN  /\ arg' = [cache_key |-> cache_key, entry |-> <<cached_entry>>]
                /\ IF Expired(cached_entry, now)
                   THEN /\ digest_cache' = Del(digest_cache, cache_key)
                        /\ out' = <<>>
                   ELSE IF made.ok
                   THEN /\ out' = <<made.value>>
                        /\ UNCHANGED digest_cache
                   ELSE /\ digest_cache' = Del(digest_cache, cache_key)
                        /\ out' = <<>>
    /\ UNCHANGED <<now, disk, engineVars, storeVars>>

\* cleanup_expired_cache(), lines 176-207
CleanupExpiredCache ==
    /\ digest_cache' = [k \in {c \in DOMAIN digest_cache :
                                  ~Expired(digest_cache[c], now)} |-> digest_cache[k]]
    /\ fn' = "cleanup_expired_cache"
    /\ arg' = <<>>
    /\ out' = <<>>
    /\ UNCHANGED <<now, disk, engineVars, storeVars>>

CacheNext ==
    \/ \E minutes \in ClockSteps : Tick(minutes)
    \/ \E cache_key \in CacheKeys, r \in Results : CacheResult(cache_key, r)
    \/ \E cache_key \in CacheKeys : GetCachedResult(cache_key)
    \/ CleanupExpiredCache

SpecCache == CacheInit /\ [][CacheNext]_vars

----------------------------------------------------------------------------
(* POST /digest (main.py, generate_digest) on a deployment without an API  *)
(* key, where cluster_tickets takes the lexical path.  A result is held by *)
(* its clusters; its other four fields are computed from the clusters and  *)
(* the request's two numbers and are left out.  arg.nth counts the         *)
(* requests handled.                                                       *)

DigestRequests ==
    {[tickets |-> t, avg_time_per_ticket_minutes |-> 30, hourly_cost_usd |-> 5000] :
        t \in UNION {[1..n -> Texts] : n \in 1..MaxDigestTickets}}

\* cluster_tickets(request.tickets): the shortcut for one ticket, else k-means
\* labels grouped and named by rule, or the emergency fallback.
ClusterTicketsResults(tks) ==
    IF Len(tks) = 1 THEN {SingleTicketResult}
    ELSE {_generate_rule_based_names(tks, GroupByLabel(labels)) :
              labels \in [1..Len(tks) -> 0..(_determine_cluster_count(Len(tks)) - 1)]}
         \cup {EmergencyFallback(Len(tks))}

DigestInit ==
    /\ EngineParked /\ StoreParked
    /\ fn = "" /\ out = <<>>
    /\ arg = [request |-> <<>>, cache_key |-> <<>>, cached |-> FALSE, nth |-> 0]
    /\ digest_cache = <<>> /\ now = 0
    /\ disk = [faiss |-> <<>>, pkl |-> <<>>]

\* datetime.utcnow() advances between two requests.
Wait(minutes) ==
    /\ now + minutes <= MaxNow
    /\ now' = now + minutes
    /\ UNCHANGED <<fn, arg, out, digest_cache, disk, engineVars, storeVars>>

\* Lines 374-380: get_cached_result finds an entry that has not expired and
\* the handler returns it.
DigestFromCache(request) ==
    LET cache_key == generate_cache_key(request)
    IN  /\ arg.nth < MaxDigests
        /\ cache_key \in DOMAIN digest_cache
        /\ ~Expired(digest_cache[cache_key], now)
        /\ fn' = "generate_digest"
        /\ arg' = [request |-> request, cache_key |-> cache_key, cached |-> TRUE,
                   nth |-> arg.nth + 1]
        /\ out' = <<digest_cache[cache_key].result>>
        /\ UNCHANGED <<digest_cache, now, disk, engineVars, storeVars>>

\* Lines 377-425: get_cached_result returns None (no entry, an expired entry
\* or one that ClusterResult rejects, which it deletes), cleanup_expired_cache
\* runs, the pipeline computes the result and cache_result stores it.
DigestComputed(request, computed) ==
    LET cache_key == generate_cache_key(request)
        kept == {k \in DOMAIN digest_cache :
                    k # cache_key /\ ~Expired(digest_cache[k], now)}
    IN  /\ arg.nth < MaxDigests
        /\ fn' = "generate_digest"
        /\ arg' = [request |-> request, cache_key |-> cache_key, cached |-> FALSE,
                   nth |-> arg.nth + 1]
        /\ digest_cache' = Put([k \in kept |-> digest_cache[k]], cache_key,
                               [result |-> [clusters |-> computed], timestamp |-> now])
        /\ out' = <<[clusters |-> computed]>>
        /\ UNCHANGED <<now, disk, engineVars, storeVars>>

DigestNext ==
    \/ \E minutes \in ClockSteps : Wait(minutes)
    \/ \E request \in DigestRequests : DigestFromCache(request)
    \/ \E request \in DigestRequests :
         \E computed \in ClusterTicketsResults(request.tickets) :
             DigestComputed(request, computed)

SpecDigest == DigestInit /\ [][DigestNext]_vars

----------------------------------------------------------------------------
(* Properties of the pure functions.                                       *)

\* The policy table of the cluster count, row by row.
PolicyTable(n) ==
    CASE n <= 2 -> 1
      [] n \in 3..5 -> 2
      [] n \in 6..10 -> 3
      [] n \in 11..20 -> IF n \div 3 < 4 THEN n \div 3 ELSE 4
      [] n \in 21..50 -> IF n \div 5 < 6 THEN n \div 5 ELSE 6
      [] OTHER -> IF n \div 8 < 10 THEN n \div 8 ELSE 10

\* C11: _determine_cluster_count(n) equals the policy table for every n >= 1.
C11_PolicyTable ==
    fn = "_determine_cluster_count" => out = PolicyTable(arg)

\* C11 witness: the heuristic was applied to 88 tickets, where n div 8 = 11
\* and the cap of 10 decides.
C11_Witness ==
    fn = "_determine_cluster_count" /\ arg = 88 /\ out = 10

\* C12: normalisation is idempotent: _preprocess_ticket applied to a text it
\* returned gives that text back.
C12_Idempotent ==
    fn = "_preprocess_ticket again" => out = arg

\* C12 witness: the normaliser was applied again to a non-empty text it had
\* returned.
C12_Witness ==
    fn = "_preprocess_ticket again" /\ arg = <<"b", "7">>

\* The normaliser as the specification words it: lower-case; every character
\* that is neither alphanumeric nor whitespace becomes a space; runs of
\* whitespace collapse to one space; tokens shorter than 2 characters are
\* dropped; the result is trimmed.
SpecNormalise(text) ==
    LET lowered == Lower(text)
        spaced == [i \in 1..Len(lowered) |->
                     IF IsAlnum(lowered[i]) \/ IsSpace(lowered[i])
                     THEN lowered[i] ELSE " "]
    IN  Strip(JoinWithSpace(LongWords(Split(CollapseWhitespace(spaced)))))

\* C13: _preprocess_ticket(text) equals the specification's normaliser for
\* every text of letters, digits, whitespace, punctuation and underscores.
C13_EqualsSpecNormaliser ==
    fn = "_preprocess_ticket" => out = SpecNormalise(arg)

\* All unordered pairs of distinct positions of a selection.
AllPairs(vectors) ==
    {p \in (1..Len(vectors)) \X (1..Len(vectors)) : p[1] < p[2]}

\* C16: the cohesion of one selected vector is 1.0; of more, it is the mean
\* of the cosines of all unordered pairs, whatever their sign, and it is 0.0
\* when no pair has a positive cosine.  (Stated for selections without a
\* zero vector, whose cosines are all defined.)
C16_CohesionIsMeanOfAllPairs ==
    (/\ fn = "_calculate_cluster_cohesion"
     /\ Len(arg) >= 1
     /\ \A i \in 1..Len(arg) : arg[i] # <<0, 0>>) =>
        out = IF Len(arg) = 1 THEN 1000
              ELSE IF \A p \in AllPairs(arg) : Cosine(arg[p[1]], arg[p[2]]) <= 0
                   THEN 0
                   ELSE SumCosines(AllPairs(arg), arg) \div Cardinality(AllPairs(arg))

----------------------------------------------------------------------------
(* Properties of cluster_tickets.                                          *)

\* The number of times ticket index i occurs in the lists of a cluster map.
Occurrences(map, i) ==
    LET names == DOMAIN map
        count(name) == Cardinality({p \in 1..Len(map[name]) : map[name][p] = i})
        RECURSIVE total(_)
        total(S) == IF S = {} THEN 0
                    ELSE LET x == CHOOSE x \in S : TRUE
                         IN  count(x) + total(S \ {x})
    IN  total(names)

\* Every index 0..n-1 is in exactly one list, once, and no other index is.
IsPartition(map, n) ==
    /\ \A i \in 0..(n - 1) : Occurrences(map, i) = 1
    /\ \A name \in DOMAIN map : \A p \in 1..Len(map[name]) :
           map[name][p] \in 0..(n - 1)

OneClusterMap(n) == "General Issues" :> [i \in 1..n |-> i - 1]

\* C1: whatever path produced it, the map cluster_tickets returns holds every
\* index 0..n-1 of the batch in exactly one cluster's list, exactly once.
C1_PartitionInvariant ==
    pc = "done" => IsPartition(result, Len(tickets))

\* C2: the map cluster_tickets returns has at least 1 and at most 10
\* clusters.  The returned map never has more clusters than the heuristic's
\* k for the batch size, and k lies in 1..10 for every batch size up to
\* MaxCountN.
C2_ClusterCountBound ==
    /\ pc = "done" =>
          /\ Cardinality(DOMAIN result) >= 1
          /\ Cardinality(DOMAIN result) <= 10
          /\ Cardinality(DOMAIN result) <= _determine_cluster_count(Len(tickets))
    /\ \A n \in 1..MaxCountN : _determine_cluster_count(n) \in 1..10

\* C2 witness: a call on a batch of three tickets returned two clusters.
C2_Witness ==
    pc = "done" /\ Len(tickets) = 3 /\ Cardinality(DOMAIN result) = 2

\* C3 as stated: cluster_tickets never raises to its caller, and if any
\* exception occurred anywhere in the path of a call on two or more tickets
\* (the naming oracle's included), the call returns the one-cluster map
\* {"General Issues": [0, ..., n-1]}.
C3_AnyExceptionFallsBack ==
    pc = "done" =>
        /\ ~raised
        /\ ((failure # "" \/ absorbed # {}) /\ Len(tickets) >= 2)
               => result = OneClusterMap(Len(tickets))

\* C3 as amended: cluster_tickets never raises to its caller; when an
\* exception leaves the embedding path or the lexical path of a call on two
\* or more tickets (the embedding provider, TF-IDF or k-means raised), the
\* call returns the one-cluster map {"General Issues": [0, ..., n-1]}.  An
\* exception of the naming oracle is handled inside the path and does not
\* lead to that map.
C3_NeverRaises ==
    pc = "done" =>
        /\ ~raised
        /\ (failure # "" /\ Len(tickets) >= 2) => result = OneClusterMap(Len(tickets))

\* C3 witness: k-means raised in a call on three tickets, after the
\* embeddings were obtained, and the call has returned.
C3_Witness ==
    pc = "done" /\ failure = "k-means" /\ Len(tickets) = 3 /\ embeddings # <<>>

\* C4: when the embedding path is attempted and fails at run time, the
\* lexical path is run next on the same batch, and the single all-tickets
\* cluster is returned only if the lexical path fails as well.
C4_LexicalAfterEmbeddingFailure ==
    (pc = "done" /\ tiers # <<>> /\ Head(tiers) = "embedding" /\ failure # "")
        => (Len(tiers) >= 2 /\ tiers[2] = "lexical")

\* C5: a call on exactly one ticket returns {"General Issues": [0]} whatever
\* the configuration, without invoking the embedding provider, the naming
\* oracle or the vector store, and leaves the store as it was.
C5_SingleTicketShortcut ==
    (pc = "done" /\ Len(tickets) = 1) =>
        /\ result = ("General Issues" :> <<0>>)
        /\ used = {}
        /\ \A i \in 1..Len(vector_store.metadata) :
               vector_store.metadata[i].call # callNo

\* C5 witness: a single-ticket call has returned on an engine that has the
\* provider and a vector store.
C5_Witness ==
    pc = "done" /\ Len(tickets) = 1 /\ use_openai /\ vector_store # NoStore

\* C10: the vector store is scoped to one clustering invocation: every
\* search result handed to the engine (by the refinement of the running call,
\* or by find_similar_tickets after it) was inserted by the latest
\* cluster_tickets call.  The engine never saves or reloads its store.
C10_StoreScopedToCall ==
    \A i \in 1..Len(hits) : hits[i].call = callNo

----------------------------------------------------------------------------
(* Properties of the vector store.                                         *)

C7_SearchSeesWholeBatches ==
    spc = "returned" => sobs.ntotal <= sobs.nmeta

\* C8 as stated: a batch whose number of vectors differs from its number of
\* metadata entries is rejected with an error that propagates to the caller,
\* and the store is left unchanged.
C8_MismatchRaises ==
    (ipc = "returned" /\ Len(iarg.emb) # Len(iarg.meta)) =>
        (iret = "raised" /\ store = ipre)

\* C8 as amended: such a batch is rejected by returning False (the
\* ValueError is caught and logged inside store_embeddings), and the store is
\* left unchanged.
C8_MismatchReturnsFalse ==
    (ipc = "returned" /\ Len(iarg.emb) # Len(iarg.meta)) =>
        (iret = "False" /\ store = ipre)

\* C8 witness: a mismatched batch was handed to a store that held vectors.
C8_Witness ==
    ipc = "returned" /\ Len(iarg.emb) # Len(iarg.meta) /\ ipre.index # <<>>

\* C9: on an untrained "ivf" store, store_embeddings with a well-formed,
\* non-empty batch of fewer than 100 vectors returns True and the batch is
\* stored.
C9_IvfDegradesToFlat ==
    (/\ ipc = "returned"
     /\ ipre.index_type = "ivf" /\ ~ipre.is_trained
     /\ iarg.emb # <<>>
     /\ Len(iarg.emb) < MinTrainSize
     /\ Len(iarg.emb) = Len(iarg.meta)
     /\ DimensionOk(ipre, iarg.emb))
        => /\ iret = "True"
           /\ store.index = ipre.index \o _normalize_embeddings(iarg.emb)
           /\ store.metadata = ipre.metadata \o iarg.meta


----------------------------------------------------------------------------
(* Naming                                                                  *)

\* The category the c-th cluster of a map picks
PickOf(tks, cl, c) ==
    BestCategory(JoinWithSpace(
        [j \in 1..Len(cl[c].members) |-> Lower(tks[cl[c].members[j] + 1])]))

\* "Category" for the first cluster picking a category, "Category 1",
\* "Category 2", ... for the later ones
SuffixedName(tks, cl, c) ==
    LET earlier == Cardinality({d \in 1..(c - 1) : PickOf(tks, cl, d) = PickOf(tks, cl, c)})
    IN  IF earlier = 0 THEN PickOf(tks, cl, c)
        ELSE PickOf(tks, cl, c) \o " " \o ToString(earlier)

\* C18: _generate_rule_based_names returns as many entries as it was given
\* clusters; the first cluster picking a category has the bare name, the
\* later ones "Category 1", "Category 2", ... in turn, and each name maps to
\* its own cluster's index list.
C18_RuleBasedNamesDistinct ==
    fn = "_generate_rule_based_names" =>
        /\ Cardinality(DOMAIN out) = Len(arg.clusters)
        /\ \A c \in 1..Len(arg.clusters) :
               /\ SuffixedName(arg.tickets, arg.clusters, c) \in DOMAIN out
               /\ out[SuffixedName(arg.tickets, arg.clusters, c)] = arg.clusters[c].members

\* C18 witness: three clusters picked the same category.
C18_Witness ==
    /\ fn = "_generate_rule_based_names"
    /\ Len(arg.clusters) = 3
    /\ DOMAIN out = {"Network Issues", "Network Issues 1", "Network Issues 2"}

\* The clusters of the map other than the c-th, in the map's order
Without(seq, c) == [i \in 1..(Len(seq) - 1) |-> IF i < c THEN seq[i] ELSE seq[i + 1]]

\* C17: in the embedding path, when the naming oracle fails for one cluster,
\* that cluster is returned under "Issue Category {label + 1}" with its index
\* list intact, every other cluster is named as it would have been had the
\* failing cluster not been there, and the call is not aborted.
C17_PlaceholderOnNamingFailure ==
    (pc = "done" /\ Len(oracle) >= 1) =>
        \A c \in 1..Len(oracle) :
            (oracle[c] = OracleRaises
             /\ \A d \in 1..Len(oracle) : d # c => oracle[d] # OracleRaises) =>
                LET placeholder == PlaceholderName(clusters[c].id)
                    others == _generate_cluster_names(Without(clusters, c),
                                                      Without(oracle, c))
                IN  /\ tiers = <<"embedding">>
                    /\ ~raised
                    /\ placeholder \in DOMAIN result
                    /\ result[placeholder] = clusters[c].members
                    /\ \A name \in DOMAIN others :
                           name \in DOMAIN result /\ result[name] = others[name]


----------------------------------------------------------------------------
(* The request cache                                                       *)

\* The number of times a ticket occurs in a list
CountOf(list, ticket) == Cardinality({i \in 1..Len(list) : list[i] = ticket})

\* Two lists hold the same tickets, in any order
SameTickets(a, b) ==
    /\ Len(a) = Len(b)
    /\ \A i \in 1..Len(a) : CountOf(a, a[i]) = CountOf(b, a[i])

\* C19: generate_cache_key gives two requests the same key when they hold
\* the same tickets in any order and the same avg_time_per_ticket_minutes and
\* hourly_cost_usd, and different keys when they differ in any of these.
C19_CacheKeyIgnoresOrderOnly ==
    fn = "generate_cache_key" =>
        (out[1] = out[2]) <=>
            /\ SameTickets(arg[1].tickets, arg[2].tickets)
            /\ arg[1].avg_time_per_ticket_minutes = arg[2].avg_time_per_ticket_minutes
            /\ arg[1].hourly_cost_usd = arg[2].hourly_cost_usd

\* C19 witness: two requests with the same tickets in another order got the
\* same key.
C19_Witness ==
    /\ fn = "generate_cache_key"
    /\ arg[1].tickets # arg[2].tickets
    /\ Len(arg[1].tickets) = 2
    /\ out[1] = out[2]


\* An expired entry is not returned and is removed.
ExpiredIsDropped ==
    (fn = "get_cached_result" /\ arg.entry # <<>>) =>
        (now - arg.entry[1].timestamp > CACHE_TTL_MINUTES =>
             out = <<>> /\ arg.cache_key \notin DOMAIN digest_cache)

\* An entry that has not expired is returned as it was stored.
FreshIsReturned ==
    (fn = "get_cached_result" /\ arg.entry # <<>>) =>
        (now - arg.entry[1].timestamp <= CACHE_TTL_MINUTES =>
             out = <<arg.entry[1].result>>)

\* An absent key gives None.
AbsentIsNone ==
    (fn = "get_cached_result" /\ arg.entry = <<>>) => out = <<>>

\* C20: get_cached_result returns None for an entry more than
\* CACHE_TTL_MINUTES old and removes it, returns the stored result for an
\* entry that has not expired, and returns None for an absent key.
C20_CacheHonoursTtl == ExpiredIsDropped /\ FreshIsReturned /\ AbsentIsNone

\* C22: whatever names the oracle returns, the map _generate_cluster_names
\* returns has one entry per input cluster and holds every cluster's index
\* list.
C22_OneEntryPerCluster ==
    (pc = "done" /\ Len(oracle) >= 1) =>
        /\ Cardinality(DOMAIN result) = Len(clusters)
        /\ \A c \in 1..Len(clusters) :
               \E name \in DOMAIN result : result[name] = clusters[c].members

\* C23: during refinement a ticket is moved only when its similarity to the
\* destination's representative exceeds 0.85, it is not already in the
\* destination, and the cluster it sits in has at most 2 members at that
\* moment; so a cluster that has 3 or more members never loses one.
MembersOf(cl, c) == {cl[c].members[k] : k \in 1..Len(cl[c].members)}

MoveIsJustified ==
    clusters' # clusters =>
        /\ pc = "refine-neighbours"
        /\ Len(hits') = 1
        /\ LET moved == hits'[1]
               from == CurrentCluster(clusters, moved.ticket_index)
           IN  /\ moved.similarity_score > RefineMoveThreshold
               /\ ~InList(moved.ticket_index, clusters[arg.c].members)
               /\ from # 0
               /\ Len(clusters[from].members) <= 2
               /\ clusters' = [clusters EXCEPT
                      ![from].members = RemoveFirst(@, moved.ticket_index),
                      ![arg.c].members = Append(@, moved.ticket_index)]

LargeClusterKeepsMembers ==
    \A c \in 1..Len(clusters) :
        Len(clusters[c].members) >= 3 =>
            /\ Len(clusters') = Len(clusters)
            /\ MembersOf(clusters, c) \subseteq MembersOf(clusters', c)

C23_MoveOnlyFromSmallCluster == [][MoveIsJustified /\ LargeClusterKeepsMembers]_vars

\* A cluster grew to 3 members by a move of this pass, and a later cluster has
\* just read a result above 0.85 that names one of its members.
C23_Witness ==
    /\ pc = "refine-neighbours"
    /\ Len(hits) = 1
    /\ LET seen == hits[1]
           from == CurrentCluster(clusters, seen.ticket_index)
       IN  /\ seen.similarity_score > RefineMoveThreshold
           /\ from # 0
           /\ from # arg.c
           /\ Len(clusters[from].members) >= 3
           /\ Len(arg.clusters[from].members) < 3

\* C24: whatever the initial partition and the search results (repeated
\* indices and indices outside the batch included), the map returned on the
\* normal path is a partition of the index set of the input, has no empty
\* cluster and has at least one cluster.
IndexSet(cl) == UNION {MembersOf(cl, c) : c \in 1..Len(cl)}

IsPartitionOf(cl, indices) ==
    /\ IndexSet(cl) = indices
    /\ BatchSize(cl) = Cardinality(indices)

C24_RefinedIsPartition ==
    pc = "refined" =>
        /\ IsPartitionOf(out, IndexSet(arg.clusters))
        /\ \A c \in 1..Len(out) : out[c].members # <<>>
        /\ Len(out) >= 1

\* The pass emptied a cluster, which the returned map no longer has.
C24_Witness ==
    /\ pc = "refined"
    /\ Len(out) < Len(arg.clusters)

\* C25: the refinement is order-dependent: there are a k-means partition and
\* embeddings for which processing the clusters in two iteration orders gives
\* two different final assignments, the size tests of a later cluster being
\* made on the lists the earlier clusters have already changed.
Assignment(cl) == {<<cl[c].id, MembersOf(cl, c)>> : c \in 1..Len(cl)}

OrderChangesAssignment(emb, cl) ==
    Assignment(_enhance_clusters_with_similarity(StoreOf(emb), cl, emb).cl)
    # Assignment(_enhance_clusters_with_similarity(StoreOf(emb), Reverse(cl), emb).cl)

SomeOrderChangesAssignment ==
    \E emb \in OrderedEmbeddings : \E labels \in OrderedLabels(Len(emb)) :
        OrderChangesAssignment(emb, GroupByLabel(labels))

C25_OrderDependent ==
    /\ SomeOrderChangesAssignment
    /\ (fn = "_enhance_clusters_with_similarity"
            /\ Assignment(out.forward) # Assignment(out.backward)) =>
         \/ Assignment(out.forward) # Assignment(arg.clusters)
         \/ Assignment(out.backward) # Assignment(arg.clusters)

\* The two orders were applied to one partition and gave different
\* assignments, each having moved a ticket the other left in place.
C25_Witness ==
    /\ fn = "_enhance_clusters_with_similarity"
    /\ Assignment(out.forward) # Assignment(out.backward)
    /\ Assignment(out.forward) # Assignment(arg.clusters)
    /\ Assignment(out.backward) # Assignment(arg.clusters)

\* C26: when the refinement fails after some tickets were already moved, the
\* map it returns is the original k-means assignment, every cluster holding
\* exactly the members it had before the refinement started.
C26_FailureReturnsOriginal ==
    pc = "refine-failed" => out = arg.clusters

\* C27: a /digest response served from the cache equals what a fresh
\* computation for the same request would return; when the entry was made
\* for the same tickets in another order, the index lists of the response
\* are positions in the requesting batch's own order.
C27_CachedEqualsFresh ==
    (fn = "generate_digest" /\ arg.cached) =>
        out[1].clusters \in ClusterTicketsResults(arg.request.tickets)

\* C28: a cluster_tickets call on the embedding path that ends in the
\* emergency single-cluster fallback because a step after the embeddings were
\* obtained raised leaves the vector store with exactly the entries it had
\* before the call.
EntriesOfCall(st, call) == {i \in 1..Len(st.metadata) : st.metadata[i].call = call}

C28_FallbackLeavesStore ==
    (/\ pc = "done"
     /\ tiers = <<"embedding", "emergency">>
     /\ failure \notin {"", "embedding provider"}
     /\ result = EmergencyFallback(Len(tickets))) =>
        /\ EntriesOfCall(vector_store, callNo) = {}
        /\ Len(vector_store.index) = Len(vector_store.metadata)

\* C29: in the lexical path each cluster's base name is the category with the
\* strictly highest number of distinct keyword hits in the cluster's
\* concatenated lower-cased tickets, the earliest category in table order
\* winning a tie, and is "General Issues" exactly when no keyword of any of
\* the 8 categories occurs in the cluster.
ClusterText(tks, members) ==
    JoinWithSpace([j \in 1..Len(members) |-> Lower(tks[members[j] + 1])])

KeywordHits(text, c) ==
    Cardinality({k \in 1..Len(category_keywords[c].keywords) :
                    Contains(text, category_keywords[c].keywords[k])})

\* counts[c] is the number of distinct keywords of the c-th category that occur
IsBaseName(name, counts) ==
    /\ name = "General Issues" <=> \A c \in DOMAIN counts : counts[c] = 0
    /\ (\E c \in DOMAIN counts : counts[c] > 0) =>
         \E c \in DOMAIN counts :
             /\ name = category_keywords[c].name
             /\ \A d \in DOMAIN counts :
                    /\ counts[d] <= counts[c]
                    /\ d < c => counts[d] < counts[c]

BaseNames == {category_keywords[d].name : d \in 1..Len(category_keywords)}
                 \cup {"General Issues"}

C29_BaseNameIsBestCategory ==
    fn = "_generate_rule_based_names" =>
        /\ Len(category_keywords) = 8
        /\ \A c \in 1..Len(arg.clusters) :
               LET text == ClusterText(arg.tickets, arg.clusters[c].members)
                   counts == [d \in 1..Len(category_keywords) |-> KeywordHits(text, d)]
               IN  \E name \in DOMAIN out :
                       /\ out[name] = arg.clusters[c].members
                       /\ \E base \in BaseNames :
                              /\ IsBaseName(base, counts)
                              /\ name \in {base} \cup {base \o " " \o ToString(k) :
                                                         k \in 1..Len(arg.clusters)}

\* A cluster in which two categories have one hit each, one of them through
\* an upper-case word, took the name of the earlier category.
C29_Witness ==
    /\ fn = "_generate_rule_based_names"
    /\ arg.tickets = <<<<"M", "O", "U", "S", "E", " ", "c", "a", "l", "l">>>>
    /\ DOMAIN out = {"Hardware Problems"}

\* C30: for every n >= 1 the cluster count chosen by _determine_cluster_count
\* is at least 1 and at most n, so k-means is never asked for more clusters
\* than there are tickets, in either path (lines 117 and 253 both pass
\* len(tickets)).
C30_CountWithinBatch ==
    fn = "_determine_cluster_count" => (1 <= out /\ out <= arg)

\* The heuristic was applied to a single ticket, where k = n.
C30_Witness ==
    fn = "_determine_cluster_count" /\ arg = 1 /\ out = arg

====
